---------------------------- MODULE Spec2Model ----------------------------
(***************************************************************************)
(* A model of yap-midi's stream decoders (ymidi/decoder.py):              *)
(* ModularDecoder.decode / seq_decode / encode, MetaDecoder.seq_decode /  *)
(* decode / reset / read_varlen / write_varlen, and of the event classes  *)
(* they instantiate (ymidi/events).                                       *)
(*                                                                         *)
(* Python lists are sequences whose index 0 is index 1 here, so           *)
(* list.insert(0, x) is <<x>> \o list and list[0] is list[1].             *)
(* A call that raises leaves the fields as they were when it raised and   *)
(* reports the exception's name in the tag of its return value.           *)
(***************************************************************************)
EXTENDS Integers, Sequences, FiniteSets, TLC

VARIABLES
    cls,            \* class of the decoder object: "Modular" or "Meta"
    decode_status,  \* ModularDecoder.decode_status
    data,           \* ModularDecoder.data   (stack of byte buffers)
    event,          \* ModularDecoder.event  (stack of event classes)
    meta_decode,    \* MetaDecoder.meta_decode
    meta_length,    \* MetaDecoder.meta_length
    meta_byts,      \* MetaDecoder.meta_byts
    meta_type,      \* MetaDecoder.meta_type  (NoneVal for None)
    var_final,      \* MetaDecoder.var_final
    var_index,      \* MetaDecoder.var_index
    ret,            \* what the last call returned or raised
    fed,            \* the bytes given to seq_decode so far, oldest first
    op,             \* the last operation called on the decoder
    vl_num,         \* varlen scenario: the integer given to write_varlen
    vl_rest,        \* varlen scenario: bytes of it not yet given to read_varlen
    vl_calls,       \* varlen scenario: what each read_varlen call returned
    msg,            \* codec scenario: the message bytes given to decode
    enc,            \* codec scenario: what encode returned for the decoded event
    wasReset,       \* whether reset() has been called on the decoder
    tracks,         \* containers: the Track objects, each a record of its fields
    pat,            \* containers: the fields of the Pattern object
    hist,           \* containers: what each get / time_get of this playback returned
    calls,          \* containers: the handlers the last _handle_event invoked, in order
    arg,            \* containers: the arguments of the last call on a container
    horder,         \* containers: the order in which this process iterates the
                    \* set of a Track's input handlers
    maps,           \* containers: the list objects held by the default handler
                    \* maps DEFAULT_TRACK_IN and DEFAULT_TRACK_OUT of maps.py
    io,             \* file IO: the fields of the MIDIFile object
    proto,          \* file IO: the protocol object (byte source and sink) and
                    \* the calls made on it
    now             \* the reading of the clock ytime

vars == <<cls, decode_status, data, event, meta_decode, meta_length, meta_byts,
          meta_type, var_final, var_index, ret, fed, op, vl_num, vl_rest,
          vl_calls, msg, enc, wasReset, tracks, pat, hist, calls, arg,
          horder, maps, io, proto, now>>

decoderVars == <<decode_status, data, event, meta_decode, meta_length,
                 meta_byts, meta_type, var_final, var_index>>

scenarioVars == <<vl_num, vl_rest, vl_calls, msg, enc>>

containerVars == <<tracks, pat, hist, calls, arg, horder, maps>>

ioVars == <<io, proto, now>>

-----------------------------------------------------------------------------
(* Bounds of the model. *)

\* Number of bytes given to seq_decode in one run.
MaxBytes == 5

-----------------------------------------------------------------------------
(* Status bytes. *)

NOTE_OFF == 128
NOTE_ON == 144
POLY_AFTERTOUCH == 160
CONTROL_CHANGE == 176
PROGRAM_CHANGE == 192
AFTER_TOUCH == 208
PITCH_BEND == 224
SYSTEM_EXCLUSIVE == 240
SONG_POSITION_POINTER == 242
SONG_SELECT == 243
TUNE_REQUEST == 246
EOX == 247
TIMING_CLOCK == 248
START_SEQUENCE == 250
CONTINUE_SEQUENCE == 251
STOP_SEQUENCE == 252
ACTIVE_SENSING == 254
SYSTEM_RESET == 255
META == 255
UNKNOWN_META == -4

\* Python's None where an integer is expected.
NoneVal == -1

-----------------------------------------------------------------------------
(* Return values.  Every value has the same fields so that any two can be  *)
(* compared: tag is "None", "event" (an event instance), "class" (an event *)
(* class object), "pair" (a (value, count) tuple) or an exception's name.  *)

Blank == [tag |-> "None", kind |-> "", statusmsg |-> NoneVal, type |-> NoneVal,
          args |-> <<>>, data |-> <<>>, dtype |-> "tuple", channel |-> NoneVal]

NoneRet == Blank

Raise(name) == [Blank EXCEPT !.tag = name]

IsError(r) == r.tag \in {"KeyError", "IndexError", "TypeError", "AssertionError", "ValueError"}

-----------------------------------------------------------------------------
(* Event classes: ymidi/events. *)

VoiceKinds == {"NoteOff", "NoteOn", "PolyphonicAfterTouch", "ControlChange",
               "ProgramChange", "AfterTouch", "PitchBendEvent"}

RealTimeKinds == {"TimingClock", "StartSequence", "ContinueSequence",
                  "StopSequence", "ActiveSensing", "SystemReset"}

CommonKinds == {"SongPositionPointer", "SongSelect", "TuneRequest", "EOX"}

MetaTextKinds == {"MetaText", "CopyrightNotice", "TrackName", "InstrumentName",
                  "Lyric", "Marker", "CuePoint"}

MetaKinds == MetaTextKinds \cup {"SequenceNumber", "ChannelPrefix", "EndOfTrack",
                 "SetTempo", "SMPTEOffset", "TimeSignature", "KeySignature", "Reserved"}

\* The class attribute statusmsg.
StatusMsg(kind) ==
    CASE kind = "NoteOff" -> NOTE_OFF
      [] kind = "NoteOn" -> NOTE_ON
      [] kind = "PolyphonicAfterTouch" -> POLY_AFTERTOUCH
      [] kind = "ControlChange" -> CONTROL_CHANGE
      [] kind = "ProgramChange" -> PROGRAM_CHANGE
      [] kind = "AfterTouch" -> AFTER_TOUCH
      [] kind = "PitchBendEvent" -> PITCH_BEND
      [] kind = "SystemExclusive" -> SYSTEM_EXCLUSIVE
      [] kind = "SongPositionPointer" -> SONG_POSITION_POINTER
      [] kind = "SongSelect" -> SONG_SELECT
      [] kind = "TuneRequest" -> TUNE_REQUEST
      [] kind = "EOX" -> EOX
      [] kind = "TimingClock" -> TIMING_CLOCK
      [] kind = "StartSequence" -> START_SEQUENCE
      [] kind = "ContinueSequence" -> CONTINUE_SEQUENCE
      [] kind = "StopSequence" -> STOP_SEQUENCE
      [] kind = "ActiveSensing" -> ACTIVE_SENSING
      [] kind = "SystemReset" -> SYSTEM_RESET
      [] kind \in MetaKinds -> META
      [] kind = "UnknownMetaEvent" -> UNKNOWN_META
      [] kind = "UnknownEvent" -> -5
      [] OTHER -> 0

\* The class attribute type of a Meta event class.
MetaTypeOf(kind) ==
    CASE kind = "SequenceNumber" -> 0
      [] kind = "MetaText" -> 1
      [] kind = "CopyrightNotice" -> 2
      [] kind = "TrackName" -> 3
      [] kind = "InstrumentName" -> 4
      [] kind = "Lyric" -> 5
      [] kind = "Marker" -> 6
      [] kind = "CuePoint" -> 7
      [] kind = "ChannelPrefix" -> 32
      [] kind = "EndOfTrack" -> 47
      [] kind = "SetTempo" -> 81
      [] kind = "SMPTEOffset" -> 84
      [] kind = "TimeSignature" -> 88
      [] kind = "KeySignature" -> 89
      [] kind = "Reserved" -> 127
      [] OTHER -> 0

\* The class attribute length: BaseEvent.length is 0 unless a class sets it.
Length(kind) ==
    CASE kind \in {"NoteOff", "NoteOn", "PolyphonicAfterTouch", "ControlChange",
                   "PitchBendEvent", "SongPositionPointer"} -> 2
      [] kind \in {"ProgramChange", "AfterTouch", "SongSelect"} -> 1
      [] kind = "SequenceNumber" -> 2
      [] kind \in MetaTextKinds \cup {"SystemExclusive"} -> -1
      [] OTHER -> 0

\* The class attribute has_channel (ChannelMessage sets it).
HasChannel(kind) == kind \in VoiceKinds

\* statusmsg of the class named by the attribute end of a variable-length class.
EndStatus(kind) == EOX

\* Number of positional parameters a class's __init__ takes; -1 for *args.
Arity(kind) ==
    CASE kind \in {"NoteOff", "NoteOn", "PolyphonicAfterTouch", "ControlChange",
                   "PitchBendEvent", "SongPositionPointer", "KeySignature"} -> 2
      [] kind \in {"ProgramChange", "AfterTouch", "SongSelect", "ChannelPrefix"} -> 1
      [] kind = "SetTempo" -> 3
      [] kind = "TimeSignature" -> 4
      [] kind = "SMPTEOffset" -> 5
      [] OTHER -> -1

\* event(*val): the instance a class builds from the values val.
Construct(kind, val) ==
    IF Arity(kind) # -1 /\ Arity(kind) # Len(val) THEN Raise("TypeError")
    ELSE IF kind \in MetaTextKinds THEN Raise("TypeError")
    ELSE IF kind \in {"UnknownEvent", "UnknownMetaEvent"} THEN
        IF val = <<>> THEN Raise("TypeError")
        ELSE [Blank EXCEPT !.tag = "event", !.kind = kind, !.statusmsg = val[1],
                           !.args = val, !.data = Tail(val)]
    ELSE [Blank EXCEPT !.tag = "event", !.kind = kind,
                       !.statusmsg = StatusMsg(kind),
                       !.type = IF kind \in MetaKinds THEN MetaTypeOf(kind) ELSE NoneVal,
                       !.args = val,
                       !.data = IF kind \in VoiceKinds THEN <<>> ELSE val,
                       !.dtype = IF kind = "SystemExclusive" THEN "bytearray" ELSE "tuple",
                       !.channel = IF kind \in VoiceKinds THEN 0 ELSE NoneVal]

-----------------------------------------------------------------------------
(* The event collections after load_default. *)

\* The class a set of classes registers for a status byte, "" if none.
ClassFor(kinds, status) ==
    LET hit == {k \in kinds :
                  IF HasChannel(k) THEN StatusMsg(k) = status - (status % 16)
                  ELSE StatusMsg(k) = status}
    IN IF hit = {} THEN "" ELSE CHOOSE k \in hit : TRUE

\* The classes load_default loads into collection.
Loaded(c) ==
    IF c = "Meta" THEN VoiceKinds
    ELSE VoiceKinds \cup RealTimeKinds \cup CommonKinds \cup {"SystemExclusive"}

\* status in self.collection
Registered(c, status) == ClassFor(Loaded(c), status) # ""

\* self.collection[status], for a registered status
Collection(c, status) == ClassFor(Loaded(c), status)

\* self.meta_collection[t]: a defaultdict whose default is UnknownMetaEvent.
MetaCollection(t) ==
    LET hit == {k \in MetaKinds : MetaTypeOf(k) = t}
    IN IF hit = {} THEN "UnknownMetaEvent" ELSE CHOOSE k \in hit : TRUE

-----------------------------------------------------------------------------
(* ModularDecoder. *)

IsStatus(num) == 128 <= num /\ num <= 255

IsData(num) == 0 <= num /\ num <= 127

\* The decoder object as a record of its fields.
Self == [cls |-> cls, decode_status |-> decode_status, data |-> data,
         event |-> event, meta_decode |-> meta_decode,
         meta_length |-> meta_length, meta_byts |-> meta_byts,
         meta_type |-> meta_type, var_final |-> var_final,
         var_index |-> var_index]

\* The fields after __init__.
Fresh(c) == [cls |-> c, decode_status |-> <<>>, data |-> <<>>, event |-> <<>>,
             meta_decode |-> FALSE, meta_length |-> 0, meta_byts |-> <<>>,
             meta_type |-> NoneVal, var_final |-> 0, var_index |-> 0]

\* A decode that leaves the end status among the values of the event.
StripEndKeep(ev, val) == val

\* decode's removal of the end status from the values of a variable-length
\* event: val.pop(-1).
StripEnd(ev, val) ==
    IF Length(ev) = -1 THEN SubSeq(val, 1, Len(val) - 1) ELSE val

\* ModularDecoder.decode(bts) on the decoder s: the fields afterwards and the
\* value returned.
Decode(s, bts) ==
    LET ds == IF IsStatus(bts[1]) THEN <<bts[1]>> \o s.decode_status
              ELSE s.decode_status
        s1 == [s EXCEPT !.decode_status = ds]
    IN  IF ds = <<>> THEN [s |-> s1, ret |-> Raise("IndexError")]
        ELSE IF ~Registered(s.cls, ds[1]) THEN [s |-> s1, ret |-> Raise("KeyError")]
        ELSE
          LET ev == Collection(s.cls, ds[1])
              val0 == Tail(bts)
              val1 == IF ev = "UnknownEvent" THEN <<ds[1]>> \o val0 ELSE val0
          IN  IF Length(ev) = -1 /\ val1 = <<>>
                THEN [s |-> s1, ret |-> Raise("IndexError")]
              ELSE IF Length(ev) = -1 /\ val1[Len(val1)] # EndStatus(ev)
                THEN [s |-> s1, ret |-> Raise("AssertionError")]
              ELSE
                LET val == StripEnd(ev, val1)
                    final == Construct(ev, val)
                IN  IF final.tag # "event" THEN [s |-> s1, ret |-> final]
                    ELSE IF HasChannel(ev)
                      THEN [s |-> s1, ret |-> [final EXCEPT !.channel = ds[1] % 16]]
                    ELSE [s |-> s1, ret |-> final]

\* The three pops that end a nested event.
PopFrame(s) ==
    [s EXCEPT !.decode_status = Tail(@), !.data = Tail(@), !.event = Tail(@)]

\* ModularDecoder.seq_decode(num) on the decoder s.
ModSeqDecode(s, num) ==
    IF IsStatus(num) /\ ~Registered(s.cls, num)
      THEN [s |-> s, ret |-> Raise("KeyError")]
    ELSE
      LET done == /\ IsStatus(num)
                  /\ s.event # <<>>
                  /\ \/ Length(s.event[1]) = -1 /\ EndStatus(s.event[1]) = num
                     \/ s.event[1] = "UnknownEvent"
          s1 == IF IsStatus(num) THEN
                    IF done THEN [s EXCEPT !.data[1] = Append(@, num)]
                    ELSE [s EXCEPT !.decode_status = <<num>> \o @,
                                   !.data = << <<num>> >> \o @,
                                   !.event = <<Collection(s.cls, num)>> \o @]
                ELSE IF Len(s.data) = 0 THEN [s EXCEPT !.data = << <<num>> >>]
                ELSE [s EXCEPT !.data[1] = Append(@, num)]
      IN  IF ~done /\ s1.event = <<>>
            THEN [s |-> s1, ret |-> Raise("IndexError")]
          ELSE IF done \/ Len(s1.data[1]) - 1 = Length(s1.event[1]) THEN
            LET d == Decode(s1, s1.data[1])
                s2 == [d.s EXCEPT !.data[1] = <<>>]
            IN  IF d.ret.tag # "event" THEN d
                ELSE IF Len(s2.decode_status) > 1
                  THEN [s |-> PopFrame(s2), ret |-> d.ret]
                ELSE [s |-> s2, ret |-> d.ret]
          ELSE [s |-> s1, ret |-> NoneRet]


-----------------------------------------------------------------------------
(* MetaDecoder. *)

\* The (value, bytes read) tuple read_varlen returns.
Pair(value, count) == [Blank EXCEPT !.tag = "pair", !.args = <<value, count>>]

\* An accumulation that shifts by a whole byte instead of seven bits.
VarShift8(acc, byte) == acc * 256 + (byte % 128)

\* (var_final << 7) | (byte & 0x7f)
VarShift(acc, byte) == acc * 128 + (byte % 128)

\* MetaDecoder.read_varlen(source) on the decoder s: None, or the pair.
RECURSIVE ReadVarlen(_, _)
ReadVarlen(s, source) ==
    IF source = <<>> THEN [s |-> s, ret |-> NoneRet]
    ELSE
      LET byte == source[1]
          vf == VarShift(s.var_final, byte)
          vi == s.var_index + 1
      IN  IF byte < 128
            THEN [s |-> [s EXCEPT !.var_final = 0, !.var_index = 0],
                  ret |-> Pair(vf, vi)]
          ELSE ReadVarlen([s EXCEPT !.var_final = vf, !.var_index = vi],
                          Tail(source))

\* The loop of write_varlen: the 7-bit groups of num, least significant first.
RECURSIVE VarGroups(_)
VarGroups(num) ==
    IF num = 0 THEN <<>> ELSE <<num % 128>> \o VarGroups(num \div 128)

\* MetaDecoder.write_varlen(num), ymidi.misc.write_varlen(num)
WriteVarlen(num) ==
    LET g == VarGroups(num)
        n == Len(g)
    IN  IF n = 0 THEN <<0>>
        ELSE [i \in 1..n |-> IF i < n THEN g[n + 1 - i] + 128 ELSE g[n + 1 - i]]

\* MetaDecoder.reset() for a MetaDecoder, BaseDecoder.reset() for a
\* ModularDecoder, which does not override it.
ResetOf(s) ==
    IF s.cls = "Meta"
      THEN [s EXCEPT !.var_final = 0, !.var_index = 0, !.meta_decode = FALSE,
                     !.meta_length = 0, !.meta_byts = <<>>, !.meta_type = NoneVal]
    ELSE s

\* An event class object, as opposed to an instance of it.
ClassObject(kind) ==
    [Blank EXCEPT !.tag = "class", !.kind = kind, !.statusmsg = StatusMsg(kind),
                  !.type = IF kind \in MetaKinds THEN MetaTypeOf(kind) ELSE NoneVal]

\* The end of MetaDecoder.seq_decode, once type and length are known.
MetaFinish(s) ==
    IF Len(s.meta_byts) = s.meta_length THEN
      LET ev == MetaCollection(s.meta_type)
          byts == IF StatusMsg(ev) = UNKNOWN_META
                  THEN <<META, s.meta_type>> \o s.meta_byts ELSE s.meta_byts
          s1 == [s EXCEPT !.meta_byts = byts]
          final == Construct(ev, byts)
      IN  IF final.tag # "event" THEN [s |-> s1, ret |-> final]
          ELSE [s |-> ResetOf(s1), ret |-> ClassObject(ev)]
    ELSE [s |-> s, ret |-> NoneRet]

\* MetaDecoder.seq_decode(byte) on the decoder s.
MetaSeqDecode(s, byte) ==
    IF byte \in {META, SYSTEM_EXCLUSIVE, EOX} THEN
      [s |-> [s EXCEPT !.meta_decode = TRUE,
                       !.meta_type = IF byte \in {SYSTEM_EXCLUSIVE, EOX}
                                     THEN byte ELSE @],
       ret |-> NoneRet]
    ELSE IF s.meta_decode THEN
      IF s.meta_type \in {NoneVal, 0}
        THEN [s |-> [s EXCEPT !.meta_type = byte], ret |-> NoneRet]
      ELSE IF s.meta_length = 0 THEN
        LET r == ReadVarlen(s, <<byte>>)
        IN  IF r.ret.tag = "None" THEN [s |-> r.s, ret |-> Raise("TypeError")]
            ELSE MetaFinish([r.s EXCEPT !.meta_length = r.ret.args[1]])
      ELSE MetaFinish([s EXCEPT !.meta_byts = Append(@, byte)])
    ELSE ModSeqDecode(s, byte)

\* seq_decode of the decoder's class.
SeqDecodeOf(s, byte) ==
    IF s.cls = "Meta" THEN MetaSeqDecode(s, byte) ELSE ModSeqDecode(s, byte)

\* MetaDecoder.decode(bts), bts a list of integers.
MetaDecode(s, bts) ==
    IF bts[1] \notin {META, SYSTEM_EXCLUSIVE, EOX} THEN Decode(s, bts)
    ELSE IF bts[1] = META /\ Len(bts) < 2 THEN [s |-> s, ret |-> Raise("IndexError")]
    ELSE
      LET ev == IF bts[1] = META THEN MetaCollection(bts[2])
                ELSE MetaCollection(bts[1])
          r == ReadVarlen(s, SubSeq(bts, 3, Len(bts)))
      IN  IF r.ret.tag = "None" THEN [s |-> r.s, ret |-> Raise("TypeError")]
          ELSE
            LET length == r.ret.args[1]
                final == SubSeq(bts, r.ret.args[2] + 3, Len(bts))
            IN  IF length # Len(final) THEN [s |-> r.s, ret |-> Raise("AssertionError")]
                ELSE IF ev = "UnknownMetaEvent" THEN [s |-> r.s, ret |-> Raise("TypeError")]
                ELSE [s |-> r.s, ret |-> Construct(ev, final)]

\* The values successive seq_decode calls return for the bytes bs, one call
\* per byte, and the decoder afterwards.
RECURSIVE RunSeq(_, _)
RunSeq(s, bs) ==
    IF bs = <<>> THEN [s |-> s, out |-> <<>>]
    ELSE
      LET r == SeqDecodeOf(s, bs[1])
          rest == RunSeq(r.s, Tail(bs))
      IN  [s |-> rest.s, out |-> <<r.ret>> \o rest.out]

\* decode of the decoder's class.
DecodeOf(s, bts) ==
    IF s.cls = "Meta" THEN MetaDecode(s, bts) ELSE Decode(s, bts)

-----------------------------------------------------------------------------
(* Encoding. *)

\* The bytes object bytes(seq) builds, or the ValueError it raises.
Bytes(seq) ==
    IF \A i \in 1..Len(seq) : 0 <= seq[i] /\ seq[i] <= 255
      THEN [Blank EXCEPT !.tag = "bytes", !.data = seq]
    ELSE Raise("ValueError")

\* BaseEvent.__bytes__ and BaseMetaMessage.__bytes__ of the instance e.
EventBytes(e) ==
    IF e.kind \in MetaKinds
      THEN Bytes(<<e.statusmsg, e.type>> \o WriteVarlen(Len(e.data)) \o e.data)
    ELSE
      LET status == IF HasChannel(e.kind)
                    THEN (e.statusmsg - (e.statusmsg % 16)) + e.channel
                    ELSE e.statusmsg
      IN  IF e.dtype = "bytearray" THEN Raise("TypeError")
          ELSE Bytes(<<status>> \o e.data)

\* ModularDecoder.encode(e): bytes(e).  MetaDecoder.encode(e) adds the list
\* write_varlen(e.delta) and the bytes object bytes(e), which raises.
EncodeOf(c, e) ==
    IF c = "Meta"
      THEN (IF IsError(EventBytes(e)) THEN EventBytes(e) ELSE Raise("TypeError"))
    ELSE EventBytes(e)


-----------------------------------------------------------------------------
(* The decoder driven one byte at a time: seq_decode and reset. *)

\* The bytes a caller gives to a ModularDecoder: two data bytes, NoteOn on
\* channel 0, ProgramChange on channel 1, SysEx, the unassigned status 0xF1,
\* EOX and TimingClock.
ModBytes == {1, 2, 144, 193, 240, 241, 247, 248}

\* The bytes a caller gives to a MetaDecoder: data bytes that are also the
\* meta types SequenceNumber, Text, EndOfTrack and the unassigned type 0x60,
\* the varlen continuation byte 0x81, NoteOn, SysEx and Meta.
MetaBytes == {0, 1, 2, 47, 96, 129, 144, 240, 255}

InBytes(c) == IF c = "Meta" THEN MetaBytes ELSE ModBytes

\* The decoder's fields take the values of the record s.
Becomes(s) ==
    /\ decode_status' = s.decode_status
    /\ data' = s.data
    /\ event' = s.event
    /\ meta_decode' = s.meta_decode
    /\ meta_length' = s.meta_length
    /\ meta_byts' = s.meta_byts
    /\ meta_type' = s.meta_type
    /\ var_final' = s.var_final
    /\ var_index' = s.var_index

\* The decoder's fields have the values of the record s.
Is(s) ==
    /\ decode_status = s.decode_status
    /\ data = s.data
    /\ event = s.event
    /\ meta_decode = s.meta_decode
    /\ meta_length = s.meta_length
    /\ meta_byts = s.meta_byts
    /\ meta_type = s.meta_type
    /\ var_final = s.var_final
    /\ var_index = s.var_index

\* No container has been created.
NoContainers ==
    /\ tracks = <<>> /\ pat = <<>> /\ hist = <<>> /\ calls = <<>> /\ arg = <<>>
    /\ horder = <<>> /\ maps = <<>>

\* No MIDIFile exists and the clock is not read.
NoIO == io = <<>> /\ proto = <<>> /\ now = 0

Idle ==
    /\ vl_num = NoneVal /\ vl_rest = <<>> /\ vl_calls = <<>>
    /\ msg = <<>> /\ enc = NoneRet
    /\ NoContainers
    /\ NoIO

\* A ModularDecoder after __init__ and load_default.
Init ==
    /\ cls = "Modular"
    /\ Is(Fresh(cls))
    /\ ret = NoneRet /\ fed = <<>> /\ op = "init" /\ wasReset = FALSE
    /\ Idle

\* A MetaDecoder after __init__ and load_default.
InitMeta ==
    /\ cls = "Meta"
    /\ Is(Fresh(cls))
    /\ ret = NoneRet /\ fed = <<>> /\ op = "init" /\ wasReset = FALSE
    /\ Idle

\* decoder.seq_decode(b)
SeqDecode ==
    /\ Len(fed) < MaxBytes
    /\ \E b \in InBytes(cls) :
         LET r == SeqDecodeOf(Self, b)
         IN  /\ Becomes(r.s)
             /\ ret' = r.ret
             /\ fed' = Append(fed, b)
    /\ op' = "seq_decode"
    /\ UNCHANGED <<cls, wasReset, scenarioVars, containerVars, ioVars>>

\* decoder.reset()
Reset ==
    /\ op # "reset"
    /\ Becomes(ResetOf(Self))
    /\ ret' = NoneRet
    /\ op' = "reset"
    /\ wasReset' = TRUE
    /\ UNCHANGED <<cls, fed, scenarioVars, containerVars, ioVars>>

Next == SeqDecode \/ Reset

Spec == Init /\ [][Next]_vars

SpecMeta == InitMeta /\ [][Next]_vars

-----------------------------------------------------------------------------
(* write_varlen and read_varlen on their own. *)

\* The integers given to write_varlen: the ends of each encoded length.
VarlenValues == {0, 1, 2, 63, 64, 127, 128, 129, 255, 256, 8191, 8192, 16383,
                 16384, 16385, 65535, 1048576, 2097151, 2097152, 2097153,
                 16777216, 134217728, 268435454, 268435455}

InitVarlen ==
    /\ cls = "Meta"
    /\ Is(Fresh(cls))
    /\ ret = NoneRet /\ fed = <<>> /\ op = "init" /\ wasReset = FALSE
    /\ Idle

\* decoder.write_varlen(v), once the bytes of the last value are all read
VarlenWrite ==
    /\ vl_rest = <<>>
    /\ \E v \in VarlenValues :
         /\ vl_num' = v
         /\ vl_rest' = WriteVarlen(v)
    /\ vl_calls' = <<>>
    /\ ret' = NoneRet
    /\ op' = "write_varlen"
    /\ UNCHANGED <<cls, decoderVars, fed, msg, enc, wasReset, containerVars,
                   ioVars>>

\* decoder.read_varlen(source), source the next k bytes of the encoding
VarlenRead ==
    /\ vl_rest # <<>>
    /\ \E k \in 1..Len(vl_rest) :
         LET r == ReadVarlen(Self, SubSeq(vl_rest, 1, k))
         IN  /\ Becomes(r.s)
             /\ ret' = r.ret
             /\ vl_calls' = Append(vl_calls, r.ret)
             /\ vl_rest' = SubSeq(vl_rest, k + 1, Len(vl_rest))
    /\ op' = "read_varlen"
    /\ UNCHANGED <<cls, fed, vl_num, msg, enc, wasReset, containerVars,
                   ioVars>>

NextVarlen == VarlenWrite \/ VarlenRead

SpecVarlen == InitVarlen /\ [][NextVarlen]_vars


-----------------------------------------------------------------------------
(* decode followed by encode, on one message. *)

\* Channel voice messages on three channels, system common and real-time
\* messages, and two System Exclusive messages.
ModMessages ==
    {<<st + ch, 60, v>> : st \in {NOTE_OFF, NOTE_ON, POLY_AFTERTOUCH,
                                  CONTROL_CHANGE, PITCH_BEND},
                          ch \in {0, 5, 15}, v \in {0, 127}}
    \cup {<<st + ch, 7>> : st \in {PROGRAM_CHANGE, AFTER_TOUCH}, ch \in {0, 5, 15}}
    \cup {<<SONG_POSITION_POINTER, 1, 2>>, <<SONG_SELECT, 3>>, <<TUNE_REQUEST>>}
    \cup {<<StatusMsg(k)>> : k \in RealTimeKinds}
    \cup {<<SYSTEM_EXCLUSIVE, EOX>>, <<SYSTEM_EXCLUSIVE, 1, 2, EOX>>}

\* Meta messages: EndOfTrack, SetTempo, Text, TimeSignature and one of an
\* unassigned type; and channel voice messages.
MetaMessages ==
    {<<META, 47, 0>>, <<META, 81, 3, 7, 161, 32>>, <<META, 1, 2, 72, 105>>,
     <<META, 88, 4, 4, 2, 24, 8>>, <<META, 96, 1, 9>>}
    \cup {<<NOTE_ON + ch, 60, v>> : ch \in {0, 5, 15}, v \in {0, 127}}

InitCodec ==
    /\ cls \in {"Modular", "Meta"}
    /\ Is(Fresh(cls))
    /\ ret = NoneRet /\ fed = <<>> /\ op = "init" /\ wasReset = FALSE
    /\ vl_num = NoneVal /\ vl_rest = <<>> /\ vl_calls = <<>>
    /\ msg \in (IF cls = "Meta" THEN MetaMessages ELSE ModMessages)
    /\ enc = NoneRet
    /\ NoContainers
    /\ NoIO

\* decoder.decode(msg)
DecodeMsg ==
    /\ op = "init"
    /\ LET r == DecodeOf(Self, msg)
       IN  Becomes(r.s) /\ ret' = r.ret
    /\ op' = "decode"
    /\ UNCHANGED <<cls, fed, wasReset, scenarioVars, containerVars,
                   ioVars>>

\* decoder.encode(e), e the event decode returned
EncodeEv ==
    /\ op = "decode"
    /\ ret.tag = "event"
    /\ enc' = EncodeOf(cls, ret)
    /\ op' = "encode"
    /\ UNCHANGED <<cls, decoderVars, ret, fed, wasReset, vl_num, vl_rest, vl_calls, msg,
                   containerVars, ioVars>>

NextCodec == DecodeMsg \/ EncodeEv

SpecCodec == InitCodec /\ [][NextCodec]_vars


-----------------------------------------------------------------------------
(* A stream decoded as midi_stream of test.py does: the bytes of msg are   *)
(* given to seq_decode one after the other and every value returned that  *)
(* is not None is appended to the list final, which is hist here.         *)

\* The stream of midi_stream.
TestStream == <<144, 60, 248, 240, 1, 2, 248, 3, 4, 5, 247, 64, 60, 128, 30, 248,
                144, 55, 55, 30, 64, 78, 23, 248>>

\* A message of two data bytes interrupted, after its first data byte, by
\* another one.
NestedStreams ==
    {<<s1, 60, s2, 30, 31, 64>> : s1, s2 \in {NOTE_OFF, NOTE_ON, CONTROL_CHANGE,
                                              PITCH_BEND + 1}}

InitStream ==
    /\ cls = "Modular"
    /\ Is(Fresh(cls))
    /\ ret = NoneRet /\ fed = <<>> /\ op = "init" /\ wasReset = FALSE
    /\ vl_num = NoneVal /\ vl_rest = <<>> /\ vl_calls = <<>>
    /\ msg \in {TestStream} \cup NestedStreams
    /\ enc = NoneRet
    /\ NoContainers
    /\ NoIO

\* value = decoder.seq_decode(bts) for the next byte of the stream; an
\* exception ends the loop.
FeedStream ==
    /\ Len(fed) < Len(msg)
    /\ ~IsError(ret)
    /\ \E r \in {SeqDecodeOf(Self, msg[Len(fed) + 1])} :
         /\ Becomes(r.s)
         /\ ret' = r.ret
         /\ hist' = IF r.ret.tag = "event"
                    THEN Append(hist, <<r.ret.kind, r.ret.args>>) ELSE hist
    /\ fed' = Append(fed, msg[Len(fed) + 1])
    /\ op' = "seq_decode"
    /\ UNCHANGED <<cls, wasReset, scenarioVars, tracks, pat, calls, arg, horder, maps, ioVars>>

NextStream == FeedStream

SpecStream == InitStream /\ [][NextStream]_vars

-----------------------------------------------------------------------------
(* Properties of seq_decode, stated over the bytes fed and the value the   *)
(* last call returned.                                                     *)

\* The last byte given to seq_decode.
LastFed == fed[Len(fed)]

\* The status bytes of the Real-Time events.
RealTimeBytes == {StatusMsg(k) : k \in RealTimeKinds}

\* The largest i with seq[i] = b, 0 if there is none.
LastIndexOf(seq, b) ==
    LET hits == {i \in 1..Len(seq) : seq[i] = b}
    IN  IF hits = {} THEN 0 ELSE CHOOSE i \in hits : \A j \in hits : j <= i

\* ModularDecoder.get_running(): decode_status[0], NoneVal when there is none.
RunningStatus == IF decode_status = <<>> THEN NoneVal ELSE decode_status[1]

\* C1: running status.  On a new ModularDecoder, after a channel status
\* byte s, every further group of L data bytes (L the data length of s's
\* event) makes seq_decode return one event of s's kind with those L bytes
\* and channel s & 0x0F, and the calls inside a group return None.
C1_RunningStatus ==
    ( /\ op = "seq_decode"
      /\ Len(fed) >= 2
      /\ IsStatus(fed[1]) /\ Registered(cls, fed[1])
      /\ HasChannel(Collection(cls, fed[1]))
      /\ \A i \in 2..Len(fed) : IsData(fed[i]) )
    => LET kind == Collection(cls, fed[1])
           L == Length(kind)
           n == Len(fed) - 1
       IN  IF n % L = 0
             THEN /\ ret.tag = "event"
                  /\ ret.kind = kind
                  /\ ret.args = SubSeq(fed, Len(fed) - L + 1, Len(fed))
                  /\ ret.channel = fed[1] % 16
           ELSE ret.tag = "None"

\* C2: Real-Time interruption.  A seq_decode call given the status byte of
\* a Real-Time event returns that event and leaves the buffers of the
\* messages in progress, their event classes and the running status as
\* they were.
C2_RealTimeInterrupt ==
    [][ ( /\ op' = "seq_decode"
          /\ Len(fed') = Len(fed) + 1
          /\ fed'[Len(fed')] \in RealTimeBytes )
        => ( /\ ret'.tag = "event"
             /\ ret'.kind = Collection(cls, fed'[Len(fed')])
             /\ data' = data
             /\ event' = event
             /\ RunningStatus' = RunningStatus ) ]_vars

C4_MetaGrammar ==
    ( /\ op = "seq_decode" /\ ~wasReset
      /\ fed[1] = META
      /\ (Len(fed) >= 2 => IsData(fed[2]))
      /\ (Len(fed) >= 3 => IsData(fed[3]) /\ Len(fed) <= 3 + fed[3]) )
    => IF Len(fed) >= 3 /\ Len(fed) = 3 + fed[3]
         THEN /\ ret.tag = "event"
              /\ \/ ret.type = fed[2] /\ ret.data = SubSeq(fed, 4, Len(fed))
                 \/ ret.args = <<META, fed[2]>> \o SubSeq(fed, 4, Len(fed))
              /\ ~meta_decode /\ meta_type = NoneVal
              /\ meta_length = 0 /\ meta_byts = <<>>
       ELSE ret.tag = "None"

\* The messages that carry their own status byte.
OwnStatusMessages ==
    {<<NOTE_ON, 1, 2>>, <<PROGRAM_CHANGE + 1, 2>>, <<SONG_SELECT, 1>>,
     <<TUNE_REQUEST>>, <<TIMING_CLOCK>>, <<SYSTEM_EXCLUSIVE, 1, 2, EOX>>}

\* The messages sent under the running status st: one group of data bytes.
RunningMessages(st) ==
    IF st # NoneVal /\ Registered(cls, st) /\ HasChannel(Collection(cls, st))
      THEN {[i \in 1..Length(Collection(cls, st)) |-> i]}
    ELSE {}

\* The events among the values seq_decode returned.
Emitted(out) == SelectSeq(out, LAMBDA r : r.tag # "None")

C6_RoundTrip ==
    /\ (op \in {"decode", "encode"} => ret.tag = "event")
    /\ (op = "encode" => enc = Bytes(msg))

\* C7: varlen round trip.  However the bytes of write_varlen(v) are split
\* over successive read_varlen calls, every call returns None except the
\* one given the last byte, which returns (v, len(write_varlen(v))) and
\* leaves the varlen state of the decoder reset.
C7_VarlenRoundTrip ==
    vl_num # NoneVal
    => /\ \A i \in 1..Len(vl_calls) :
            IF i = Len(vl_calls) /\ vl_rest = <<>>
              THEN vl_calls[i] = Pair(vl_num, Len(WriteVarlen(vl_num)))
            ELSE vl_calls[i].tag = "None"
       /\ (vl_rest = <<>> => var_final = 0 /\ var_index = 0)

\* The largest value, written as four bytes, has been read back one byte
\* per call.
C7_Witness ==
    /\ vl_num = 268435455
    /\ vl_rest = <<>>
    /\ Len(vl_calls) = 4
    /\ vl_calls[4].args = <<268435455, 4>>

\* C8: unknown bytes are never fatal.  seq_decode given a status byte that
\* the collection does not register raises no error.
C8_UnknownNotFatal ==
    ( /\ op = "seq_decode"
      /\ IsStatus(LastFed)
      /\ ~Registered(cls, LastFed) )
    => ~IsError(ret)

\* C9: after an unregistered status byte u and data bytes, a registered
\* status byte s that is not Real-Time ends the UnknownEvent: the call
\* returns an UnknownEvent of status u whose data are the bytes between u
\* and s, and s is the status of the message then in progress.
C9_UnknownTerminated ==
    ( op = "seq_decode" /\ Len(fed) >= 2 )
    => \A i \in 1..(Len(fed) - 1) :
         ( /\ IsStatus(fed[i]) /\ ~Registered(cls, fed[i])
           /\ \A j \in (i + 1)..(Len(fed) - 1) : IsData(fed[j])
           /\ IsStatus(LastFed) /\ Registered(cls, LastFed)
           /\ LastFed \notin RealTimeBytes
           /\ Length(Collection(cls, LastFed)) > 0 )
         => /\ ret.tag = "event"
            /\ ret.kind = "UnknownEvent"
            /\ ret.statusmsg = fed[i]
            /\ ret.data = SubSeq(fed, i + 1, Len(fed) - 1)
            /\ event # <<>> /\ event[1] = Collection(cls, LastFed)
            /\ data[1] = <<LastFed>>

\* C10: reset.  After reset() the decoder holds no message in progress and
\* no partial varlen or meta state, and the values seq_decode returns for
\* any two further bytes are those a new decoder returns.
C10_Reset ==
    op = "reset"
    => /\ data = <<>> /\ event = <<>>
       /\ var_final = 0 /\ var_index = 0
       /\ ~meta_decode /\ meta_byts = <<>>
       /\ \A a, b \in InBytes(cls) :
            RunSeq(Self, <<a, b>>).out = RunSeq(Fresh(cls), <<a, b>>).out


-----------------------------------------------------------------------------
(* Containers: ymidi/containers.py and the handlers of                     *)
(* ymidi/handlers/track.py.  A Track is a record of its fields, events     *)
(* being its list; an event is a record of its attributes, id telling the  *)
(* objects apart.  An index i of a Python list is index i + 1 here.        *)

\* Largest number of events in a Track.
MaxEvents == 3

\* The delta times given to new events.
Deltas == {0, 5, 10}

\* No decoder is in use.
NoDecoder ==
    /\ cls = "Modular" /\ Is(Fresh(cls))
    /\ fed = <<>> /\ wasReset = FALSE
    /\ vl_num = NoneVal /\ vl_rest = <<>> /\ vl_calls = <<>>
    /\ msg = <<>> /\ enc = NoneRet

\* bpm_to_mpb(bpm, denom): (60000000 * denom) / (4 * bpm).  The values used
\* make the division exact.
BpmToMpb(bpm, denom) == (60000000 * denom) \div (4 * bpm)

\* mpb_to_bpm(mpq, denom): (60000000 / mpq) * (denom / 4), exact likewise.
MpbToBpm(mpq, denom) == ((60000000 \div mpq) * denom) \div 4

\* An event after __init__: BaseEvent.__init__ sets tick, delta and time,
\* BaseMetaMessage.__init__ also sets track; the caller then sets delta.
NewEvent(id, kind, delta) ==
    [id |-> id, kind |-> kind, delta |-> delta, tick |-> 0, time |-> 0,
     hasTrack |-> kind \in MetaKinds, track |-> 0, data |-> <<>>]

\* asyncio.sleep(a / b), a / b in seconds: how far the clock ytime, which
\* counts nanoseconds, has advanced when the sleep is over.
SleepFor(a, b) == a * (1000000000 \div b)

\* Track.__init__; interval is held as the clock's advance over one sleep.
NewTrack ==
    [events |-> <<>>, out_index |-> 0, tempo |-> 120,
     mpb |-> BpmToMpb(120, 4), den |-> 4, msb |-> NoneVal, divisions |-> 48,
     start_time |-> 0, last_time |-> 0, lookahead |-> 75 * 1000,
     interval |-> SleepFor(50, 1000)]

\* hands = set(collec[key] + collec[GLOBAL]) of a Track's in_hands: no
\* class that can be instantiated has a handler under its key.
TrackInHands(kind) ==
    {"rehandle", "event_tick", "event_delta_time", "event_time", "append_event"}

\* hands of a Track's out_hands.
TrackOutHands(kind) == IF kind = "SetTempo" THEN {"set_tempo"} ELSE {}

\* DEFAULT_TRACK_IN[GLOBAL]: the input handlers of a Track as registered.
TrackInRegistered ==
    <<"rehandle", "event_tick", "event_delta_time", "event_time", "append_event">>

\* The orders in which iterating the set S can give its members: the order
\* follows the hashes of the handler functions, which differ from one
\* process to the next.
RECURSIVE Orders(_)
Orders(S) ==
    IF S = {} THEN {<<>>}
    ELSE UNION {{<<x>> \o rest : rest \in Orders(S \ {x})} : x \in S}

\* de_to_ms(self, delta, division, mpb) called with the arguments args.
DeToMs(args) ==
    IF Len(args) # 4 THEN Raise("TypeError")
    ELSE [Blank EXCEPT !.tag = "value", !.args = <<args[2] * (args[4] \div args[3])>>]

\* A handler sets the attribute tick of the event being handled, which may
\* already be in the list.
SetTick(h, v) ==
    [h EXCEPT !.ev.tick = v,
              !.t.events = IF h.at > 0 THEN [@ EXCEPT ![h.at].tick = v] ELSE @]

\* Track.rehandle(): _handle_event(event, index) for each event, which is
\* a call without the argument collec.
TrackRehandle(h) ==
    IF h.t.events = <<>> THEN h ELSE [h EXCEPT !.exc = "TypeError"]

\* One input handler of a Track called with (track, event, index).
TrackIn(name, h, index) ==
    CASE name = "append_event" ->
           [h EXCEPT !.t.events = Append(@, h.ev), !.at = Len(h.t.events) + 1]
      [] name = "event_tick" ->
           IF index > 0 /\ index > Len(h.t.events) THEN [h EXCEPT !.exc = "IndexError"]
           ELSE SetTick(h, (IF index > 0 THEN h.t.events[index].tick ELSE 0) + h.ev.delta)
      [] name = "event_delta_time" ->
           [h EXCEPT !.exc = DeToMs(<<h.ev.delta, h.t.divisions, h.t.mpb>>).tag]
      [] name = "event_time" ->
           IF index > 0 /\ index > Len(h.t.events) THEN [h EXCEPT !.exc = "IndexError"]
           ELSE [h EXCEPT !.exc = DeToMs(<<h.ev.delta, h.t.divisions, h.t.mpb>>).tag]
      [] name = "rehandle" ->
           IF index < Len(h.t.events) /\ h.at = 0 THEN TrackRehandle(h) ELSE h

\* BaseContainer._handle_event on a Track with its in_hands, the set being
\* iterated in the order given: every handler returns None, so the loop
\* ends with the set or with an exception.
RECURSIVE TrackHandleIn(_, _, _)
TrackHandleIn(h, order, index) ==
    IF order = <<>> \/ h.exc # "" THEN h
    ELSE TrackHandleIn(TrackIn(order[1], [h EXCEPT !.calls = Append(@, order[1])], index),
                       Tail(order), index)

\* Track.submit_event(event, index), index = NoneVal for None.
TrackSubmit(t, ev, index, order) ==
    TrackHandleIn([t |-> t, ev |-> ev, at |-> 0, calls |-> <<>>, exc |-> ""],
                  order, IF index = NoneVal THEN Len(t.events) ELSE index)

\* list.insert(i, x)
ListInsert(seq, i, x) ==
    SubSeq(seq, 1, i) \o <<x>> \o SubSeq(seq, i + 1, Len(seq))

\* An id no event of the tracks has: events are never removed.
FreshId ==
    1 + Cardinality({p \in (1..Len(tracks)) \X (1..MaxEvents) :
                        p[2] <= Len(tracks[p[1]].events)})

-----------------------------------------------------------------------------
(* One Track filled through submit_event, append and insert. *)

InitTrack ==
    /\ NoDecoder
    /\ NoIO
    /\ tracks = <<NewTrack>> /\ pat = <<>> /\ hist = <<>> /\ calls = <<>>
    /\ arg = <<>>
    /\ maps = <<>>
    /\ horder \in Orders(TrackInHands("NoteOn"))
    /\ ret = NoneRet /\ op = "init"

\* track.submit_event(event) and track.submit_event(event, index) for a
\* new event
SubmitEvent ==
    /\ Len(tracks[1].events) < MaxEvents
    /\ \E d \in Deltas, index \in {NoneVal} \cup 0..Len(tracks[1].events) :
         LET ev == NewEvent(FreshId, "NoteOn", d)
             h == TrackSubmit(tracks[1], ev, index, horder)
         IN  /\ tracks' = <<h.t>>
             /\ calls' = h.calls
             /\ ret' = IF h.exc = "" THEN NoneRet ELSE Raise(h.exc)
             /\ arg' = [id |-> ev.id, delta |-> d,
                        index |-> IF index = NoneVal THEN Len(tracks[1].events)
                                  ELSE index]
    /\ op' = "submit_event"
    /\ UNCHANGED <<cls, decoderVars, fed, wasReset, scenarioVars, pat, hist, horder, maps,
                   ioVars>>

\* track.append(event): UserList.append
AppendEvent ==
    /\ Len(tracks[1].events) < MaxEvents
    /\ \E d \in Deltas :
         LET ev == NewEvent(FreshId, "NoteOn", d)
         IN  /\ tracks' = [tracks EXCEPT ![1].events = Append(@, ev)]
             /\ arg' = [id |-> ev.id, delta |-> d, index |-> Len(tracks[1].events)]
    /\ ret' = NoneRet /\ calls' = <<>>
    /\ op' = "append"
    /\ UNCHANGED <<cls, decoderVars, fed, wasReset, scenarioVars, pat, hist, horder, maps,
                   ioVars>>

\* track.insert(i, event): UserList.insert
InsertEvent ==
    /\ Len(tracks[1].events) < MaxEvents
    /\ \E d \in Deltas, i \in 0..Len(tracks[1].events) :
         LET ev == NewEvent(FreshId, "NoteOn", d)
         IN  /\ tracks' = [tracks EXCEPT ![1].events = ListInsert(@, i, ev)]
             /\ arg' = [id |-> ev.id, delta |-> d, index |-> i]
    /\ ret' = NoneRet /\ calls' = <<>>
    /\ op' = "insert"
    /\ UNCHANGED <<cls, decoderVars, fed, wasReset, scenarioVars, pat, hist, horder, maps,
                   ioVars>>

\* track.rehandle()
RehandleTrack ==
    /\ op # "rehandle"
    /\ \E h \in {TrackRehandle([t |-> tracks[1], ev |-> NewEvent(0, "NoteOn", 0),
                                at |-> 0, calls |-> <<>>, exc |-> ""])} :
         /\ tracks' = <<h.t>>
         /\ calls' = h.calls
         /\ ret' = IF h.exc = "" THEN NoneRet ELSE Raise(h.exc)
    /\ op' = "rehandle"
    /\ UNCHANGED <<cls, decoderVars, fed, wasReset, scenarioVars, pat, hist, arg, horder, maps,
                   ioVars>>

NextTrack == SubmitEvent \/ AppendEvent \/ InsertEvent \/ RehandleTrack

SpecTrack == InitTrack /\ [][NextTrack]_vars

-----------------------------------------------------------------------------
(* Track: tempo, time signature and the output side.  _tempo is the field  *)
(* tempo, _mpb the field mpb, timesig_den the field den; msb is NoneVal    *)
(* while the object has no attribute of that name.                         *)

\* The property Track.tempo read.
TrackTempo(t) == t.tempo

\* The property Track.mpb read.  The property object is built by
\* @tempo.setter, that is from tempo's getter and the new setter.
TrackMpb(t) == t.tempo

\* Track.tempo = tempo
SetTrackTempo(t, tempo) == [t EXCEPT !.tempo = tempo, !.mpb = BpmToMpb(tempo, t.den)]

\* Track.mpb = mpb
SetTrackMpb(t, mpb) == [t EXCEPT !.mpb = mpb, !.tempo = MpbToBpm(mpb, t.den)]

\* The handler time_signature.
TimeSignatureHand(t, den) == [t EXCEPT !.den = den]

\* The instance attributes of an event besides those of BaseEvent.
EventAttrs(kind) ==
    (IF kind \in MetaKinds THEN {"track"} ELSE {})
    \cup (IF kind = "SetTempo" THEN {"bt1", "bt2", "bt3"} ELSE {})

\* The value a SetTempo event carries in its three data bytes.
TempoValue(ev) == ev.data[1] * 65536 + ev.data[2] * 256 + ev.data[3]

\* The handler set_tempo: track.msb = event.tempo
SetTempoHand(t, ev) ==
    IF "tempo" \notin EventAttrs(ev.kind)
    THEN [t |-> t, exc |-> "AttributeError"]
    ELSE [t |-> [t EXCEPT !.msb = ev.tempo], exc |-> ""]

\* _handle_event with out_hands: at most one handler is registered for any
\* key, so the iteration order of the set cannot matter.
TrackHandleOut(t, ev) ==
    IF "set_tempo" \in TrackOutHands(ev.kind)
    THEN SetTempoHand(t, ev)
    ELSE [t |-> t, exc |-> ""]

\* An event returned to the caller.
EventRet(ev) ==
    [Blank EXCEPT !.tag = "event", !.kind = ev.kind, !.args = <<ev.id, ev.tick>>,
                  !.data = ev.data]

\* Track.get
TrackGet(t) ==
    IF t.out_index >= Len(t.events)
    THEN [t |-> t, ret |-> Raise("IndexError")]
    ELSE LET ev == t.events[t.out_index + 1]
             h  == TrackHandleOut(t, ev)
         IN  IF h.exc # ""
             THEN [t |-> h.t, ret |-> Raise(h.exc)]
             ELSE [t |-> [h.t EXCEPT !.out_index = @ + 1], ret |-> EventRet(ev)]

\* The loop of Track.time_get entered at the clock reading clock: the
\* reading at which it is left, one sleep of interval after another.
RECURSIVE WaitUntil(_, _, _)
WaitUntil(t, time_done, clock) ==
    IF time_done < clock + t.lookahead THEN clock
    ELSE WaitUntil(t, time_done, clock + t.interval)

\* Track.time_get called at the clock reading clock: the deadline is
\* computed with de_to_ms before anything else is done; now is the reading
\* of the clock when the call ends.
TrackTimeGet(t, clock) ==
    IF t.out_index >= Len(t.events)
    THEN [t |-> t, ret |-> Raise("IndexError"), now |-> clock]
    ELSE LET ev == t.events[t.out_index + 1]
             ms == DeToMs(<<ev.delta, t.divisions, t.mpb>>)
         IN  IF ms.tag # "value"
             THEN [t |-> t, ret |-> Raise(ms.tag), now |-> clock]
             ELSE LET left == WaitUntil(t, t.last_time + ms.args[1], clock)
                      r == TrackGet([t EXCEPT !.last_time = left])
                  IN  [t |-> r.t, ret |-> r.ret, now |-> left]

\* Track.start_playback(index, time) called at the clock reading clock;
\* time is NoneVal for None.
TrackStart(t, index, time, clock) ==
    LET start == IF time = NoneVal THEN clock ELSE time
    IN  [t EXCEPT !.out_index = index, !.start_time = start, !.last_time = start]

RECURSIVE SumDeltas(_, _)
SumDeltas(desc, n) == IF n = 0 THEN 0 ELSE SumDeltas(desc, n - 1) + desc[n][2]

\* A list of events, each <<kind, delta, data>>, with the ticks that follow
\* from the deltas already stamped on the events.
Stamped(desc) ==
    [i \in 1..Len(desc) |->
        [NewEvent(i, desc[i][1], desc[i][2])
            EXCEPT !.tick = SumDeltas(desc, i), !.data = desc[i][3]]]

Tempos == {30, 60, 120, 240}
Mpbs == {250000, 500000, 1000000}
Denominators == {2, 4, 8}

TempoTracks ==
    { Stamped(<< <<"NoteOn", 0, <<>> >>, <<"SetTempo", 10, <<3, 208, 144>> >>,
                 <<"NoteOn", 10, <<>> >>, <<"EndOfTrack", 0, <<>> >> >>),
      Stamped(<< <<"SetTempo", 0, <<15, 66, 64>> >>, <<"EndOfTrack", 5, <<>> >> >>),
      Stamped(<< <<"NoteOn", 0, <<>> >>, <<"NoteOff", 10, <<>> >>,
                 <<"EndOfTrack", 10, <<>> >> >>) }

InitTempo ==
    /\ NoDecoder
    /\ NoIO
    /\ \E evs \in TempoTracks : tracks = <<[NewTrack EXCEPT !.events = evs]>>
    /\ pat = <<>> /\ hist = <<>> /\ calls = <<>> /\ arg = <<>> /\ horder = <<>> /\ maps = <<>>
    /\ ret = NoneRet /\ op = "init"

TempoFrame == UNCHANGED <<cls, decoderVars, fed, wasReset, scenarioVars, pat, hist,
                          calls, horder, maps, ioVars>>

AssignTempo ==
    /\ \E v \in Tempos :
         /\ tracks' = <<SetTrackTempo(tracks[1], v)>>
         /\ arg' = <<v>>
    /\ ret' = NoneRet /\ op' = "tempo"
    /\ TempoFrame

AssignMpb ==
    /\ \E v \in Mpbs :
         /\ tracks' = <<SetTrackMpb(tracks[1], v)>>
         /\ arg' = <<v>>
    /\ ret' = NoneRet /\ op' = "mpb"
    /\ TempoFrame

ChangeTimeSignature ==
    /\ \E d \in Denominators :
         /\ tracks' = <<TimeSignatureHand(tracks[1], d)>>
         /\ arg' = <<d>>
    /\ ret' = NoneRet /\ op' = "time_signature"
    /\ TempoFrame

StartTrack ==
    /\ tracks' = <<TrackStart(tracks[1], 0, NoneVal, now)>>
    /\ arg' = <<>>
    /\ ret' = NoneRet /\ op' = "start_playback"
    /\ TempoFrame

GetFromTrack ==
    /\ LET r == TrackGet(tracks[1])
       IN  /\ tracks' = <<r.t>>
           /\ ret' = r.ret
    /\ arg' = <<>>
    /\ op' = "get"
    /\ TempoFrame

TimeGetFromTrack ==
    /\ LET r == TrackTimeGet(tracks[1], now)
       IN  /\ tracks' = <<r.t>>
           /\ ret' = r.ret
    /\ arg' = <<>>
    /\ op' = "time_get"
    /\ TempoFrame

NextTempo ==
    \/ AssignTempo
    \/ AssignMpb
    \/ ChangeTimeSignature
    \/ StartTrack
    \/ GetFromTrack
    \/ TimeGetFromTrack

SpecTempo == InitTempo /\ [][NextTempo]_vars

-----------------------------------------------------------------------------
(* Pattern: playback.  A pattern is the record pat and the tracks it holds *)
(* are the sequence tracks; playing_tracks lists the positions in tracks   *)
(* of the tracks still playing, in the order of the pattern (no two tracks *)
(* hold the same event objects, so list.remove removes the track given).   *)
(* hist is the log of the calls made since the last start_playback: that   *)
(* call first, then what each get or time_get returned or raised, with the *)
(* index of the track the event came from.                                 *)

MaxGets == 9

\* Pattern.__init__, with the format assigned afterwards; tempo_out is
\* out_hands[TEMPO_SET], where attach_global_tempo registers global_tempo
\* for a StartPattern of format 1.
NewPattern(divisions, format) ==
    [divisions |-> divisions, num_tracks |-> 0, track_index |-> 0,
     format |-> format, playing_tracks |-> <<>>, playing |-> FALSE,
     started |-> FALSE, stopped |-> FALSE, tempo_out |-> <<>>]

\* StartPattern(6, self.format, len(self), self._divisions)
StartPatternRet(p, ts) ==
    [Blank EXCEPT !.tag = "event", !.kind = "StartPattern",
                  !.args = <<6, p.format, Len(ts), p.divisions>>]

\* StopPattern()
StopPatternRet == [Blank EXCEPT !.tag = "event", !.kind = "StopPattern"]

\* Track.current
Current(t) == t.events[t.out_index + 1]

\* self.started = True
MarkStartedNot(p) == p

MarkStarted(p) == [p EXCEPT !.started = TRUE]

\* The loop of _get_newest over playing_tracks from position i on, with
\* the track and the ticks kept so far; ticks is NoneVal for None.
RECURSIVE ScanNewest(_, _, _, _, _)
ScanNewest(pl, ts, i, track, ticks) ==
    IF i > Len(pl) THEN track
    ELSE LET ev == Current(ts[pl[i]])
         IN  IF ticks = NoneVal \/ ev.tick <= ticks
             THEN ScanNewest(pl, ts, i + 1, pl[i], ev.tick)
             ELSE ScanNewest(pl, ts, i + 1, track, ticks)

\* list.remove
ListRemove(seq, x) == SelectSeq(seq, LAMBDA y : y # x)

\* Pattern._get_newest: the pattern afterwards, and either a special event
\* (trk = NoneVal), an exception, or the track to take the event from.
GetNewest(p, ts) ==
    IF ~p.started
    THEN [p |-> MarkStarted(p), ret |-> StartPatternRet(p, ts), trk |-> NoneVal]
    ELSE IF p.stopped
    THEN [p |-> p, ret |-> Raise("StopPlayback"), trk |-> NoneVal]
    ELSE IF \E i \in 1..Len(p.playing_tracks) :
                ts[p.playing_tracks[i]].out_index >= Len(ts[p.playing_tracks[i]].events)
    THEN [p |-> p, ret |-> Raise("IndexError"), trk |-> NoneVal]
    ELSE IF Len(p.playing_tracks) = 0
    THEN [p |-> [p EXCEPT !.playing = FALSE], ret |-> StopPatternRet, trk |-> NoneVal]
    ELSE LET track == ScanNewest(p.playing_tracks, ts, 1, NoneVal, NoneVal)
             first_event == Current(ts[track])
         IN  [p   |-> IF first_event.kind = "EndOfTrack"
                      THEN [p EXCEPT !.playing_tracks = ListRemove(@, track)]
                      ELSE p,
              ret |-> NoneRet,
              trk |-> track]

\* The handler global_tempo: track.mpb = event.tempo for every track of the
\* pattern.
GlobalTempo(ts, ev) ==
    IF Len(ts) = 0 THEN [ts |-> ts, exc |-> ""]
    ELSE IF "tempo" \notin EventAttrs(ev.kind)
    THEN [ts |-> ts, exc |-> "AttributeError"]
    ELSE [ts |-> [k \in 1..Len(ts) |-> SetTrackMpb(ts[k], ev.tempo)], exc |-> ""]

\* _handle_event with the pattern's out_hands: DEFAULT_PATTERN_OUT is
\* empty, and attach_global_tempo registers global_tempo under TEMPO_SET;
\* the set holds it once however often it was attached.
PatternHandleOut(p, ts, ev) ==
    IF ev.kind = "SetTempo" /\ p.tempo_out # <<>>
    THEN GlobalTempo(ts, ev)
    ELSE [ts |-> ts, exc |-> ""]

\* Pattern.get (timed = FALSE) and Pattern.time_get (timed = TRUE) called
\* at the clock reading clock.
PatternGet(p, ts, timed, clock) ==
    LET g == GetNewest(p, ts)
    IN  IF g.trk = NoneVal
        THEN [p |-> g.p, ts |-> ts, ret |-> g.ret, trk |-> NoneVal]
        ELSE LET r == IF timed THEN TrackTimeGet(ts[g.trk], clock)
                      ELSE TrackGet(ts[g.trk])
                 got == [ts EXCEPT ![g.trk] = r.t]
             IN  IF r.ret.tag # "event"
                 THEN [p |-> g.p, ts |-> got, ret |-> r.ret, trk |-> NoneVal]
                 ELSE LET o == PatternHandleOut(g.p, got, Current(ts[g.trk]))
                      IN  IF o.exc # ""
                          THEN [p |-> g.p, ts |-> o.ts, ret |-> Raise(o.exc),
                                trk |-> NoneVal]
                          ELSE [p |-> g.p, ts |-> o.ts, ret |-> r.ret,
                                trk |-> g.trk - 1]

\* Pattern.start_playback called at the clock reading clock
PatternStart(p, ts, clock) ==
    [p  |-> [p EXCEPT !.playing_tracks = [i \in 1..Len(ts) |-> i],
                      !.playing = TRUE, !.started = FALSE],
     ts |-> [i \in 1..Len(ts) |-> TrackStart(ts[i], 0, NoneVal, clock)]]

TrackOf(desc) == [NewTrack EXCEPT !.events = Stamped(desc)]

Note(delta) == <<"NoteOn", delta, <<>> >>
EndTrack(delta) == <<"EndOfTrack", delta, <<>> >>

\* The tracks of the patterns played: ticks [0,10,20] and [5,15]; three
\* tracks whose events fall on the same ticks; one track with a SetTempo;
\* a pattern without tracks; one track of a single EndOfTrack; two tracks,
\* the first with a SetTempo.
PatternTracks ==
    { << TrackOf(<<Note(0), Note(10), EndTrack(10)>>),
         TrackOf(<<Note(5), EndTrack(10)>>) >>,
      << TrackOf(<<Note(0), EndTrack(10)>>),
         TrackOf(<<Note(0), EndTrack(10)>>),
         TrackOf(<<Note(0), EndTrack(10)>>) >>,
      << TrackOf(<<Note(0), <<"SetTempo", 5, <<3, 208, 144>> >>, EndTrack(5)>>) >>,
      << >>,
      << TrackOf(<<EndTrack(0)>>) >>,
      << TrackOf(<< <<"SetTempo", 0, <<15, 66, 64>> >>, EndTrack(10)>>),
         TrackOf(<<Note(5), EndTrack(10)>>) >> }

Divisions == {48, 96}
Formats == {0, 1, 2}

InitPattern ==
    /\ NoDecoder
    /\ NoIO
    /\ tracks \in PatternTracks
    /\ \E d \in Divisions, f \in Formats, g \in BOOLEAN :
         /\ g => f = 1
         /\ pat = [NewPattern(d, f) EXCEPT
                     !.tempo_out = IF g THEN <<"global_tempo">> ELSE <<>>]
    /\ hist = <<>> /\ calls = <<>> /\ arg = <<>> /\ horder = <<>> /\ maps = <<>>
    /\ ret = NoneRet /\ op = "init"

PatternFrame == UNCHANGED <<cls, decoderVars, fed, wasReset, scenarioVars, calls,
                            arg, horder, maps, ioVars>>

StartPlayback ==
    /\ LET r == PatternStart(pat, tracks, now)
       IN  /\ pat' = r.p
           /\ tracks' = r.ts
    /\ hist' = << [ret |-> [Blank EXCEPT !.tag = "start_playback"], trk |-> NoneVal] >>
    /\ ret' = NoneRet /\ op' = "start_playback"
    /\ PatternFrame

Get ==
    /\ Len(hist) <= MaxGets
    /\ LET r == PatternGet(pat, tracks, FALSE, now)
       IN  /\ pat' = r.p
           /\ tracks' = r.ts
           /\ ret' = r.ret
           /\ hist' = Append(hist, [ret |-> r.ret, trk |-> r.trk])
    /\ op' = "get"
    /\ PatternFrame

TimeGet ==
    /\ Len(hist) <= MaxGets
    /\ LET r == PatternGet(pat, tracks, TRUE, now)
       IN  /\ pat' = r.p
           /\ tracks' = r.ts
           /\ ret' = r.ret
           /\ hist' = Append(hist, [ret |-> r.ret, trk |-> r.trk])
    /\ op' = "time_get"
    /\ PatternFrame

NextPattern == StartPlayback \/ Get \/ TimeGet

SpecPattern == InitPattern /\ [][NextPattern]_vars

-----------------------------------------------------------------------------
(* Track: time_get against the clock.  The clock ytime counts nanoseconds  *)
(* and is read at multiples of ClockStep.                                  *)

MaxTicks == 4
ClockStep == 25000000

\* lookahead and interval: the defaults of Track.__init__, and values
\* configured as 75 ms and 50 ms of the clock.
SchedConfigs == { <<75 * 1000, SleepFor(50, 1000)>>, <<75000000, 50000000>> }

SchedTracks ==
    { Stamped(<<Note(10), EndTrack(0)>>), Stamped(<<Note(0), EndTrack(10)>>) }

InitSched ==
    /\ NoDecoder
    /\ io = <<>> /\ proto = <<>>
    /\ now \in {0, ClockStep}
    /\ \E evs \in SchedTracks, cfg \in SchedConfigs :
         tracks = <<[NewTrack EXCEPT !.events = evs, !.lookahead = cfg[1],
                                     !.interval = cfg[2]]>>
    /\ pat = <<>> /\ hist = <<>> /\ calls = <<>> /\ arg = <<>> /\ horder = <<>> /\ maps = <<>>
    /\ ret = NoneRet /\ op = "init"

SchedFrame == UNCHANGED <<cls, decoderVars, fed, wasReset, scenarioVars, pat, hist,
                          calls, arg, horder, maps, io, proto>>

\* Time passes.
ClockTick ==
    /\ now < MaxTicks * ClockStep
    /\ now' = now + ClockStep
    /\ UNCHANGED <<tracks, ret, op>>
    /\ SchedFrame

\* track.start_playback()
SchedStart ==
    /\ tracks' = <<TrackStart(tracks[1], 0, NoneVal, now)>>
    /\ ret' = NoneRet /\ op' = "start_playback"
    /\ UNCHANGED now
    /\ SchedFrame

\* await track.time_get()
SchedTimeGet ==
    /\ LET r == TrackTimeGet(tracks[1], now)
       IN  /\ tracks' = <<r.t>>
           /\ ret' = r.ret
           /\ now' = r.now
    /\ op' = "time_get"
    /\ SchedFrame

\* track.get()
SchedGet ==
    /\ LET r == TrackGet(tracks[1])
       IN  /\ tracks' = <<r.t>>
           /\ ret' = r.ret
    /\ op' = "get"
    /\ UNCHANGED now
    /\ SchedFrame

NextSched == ClockTick \/ SchedStart \/ SchedTimeGet \/ SchedGet

SpecSched == InitSched /\ [][NextSched]_vars

-----------------------------------------------------------------------------
(* Pattern: events submitted to a pattern and sorted into its tracks.      *)
(* horder gives the iteration order of the pattern's handler set and of    *)
(* the tracks' handler set.                                                *)

\* hands = set(collec[key] + collec[GLOBAL]) of a Pattern's in_hands, for
\* the key of a MIDI event.
PatternInHands(kind) ==
    CASE kind = "EndOfTrack" -> {"sort_events", "stop_track"}
      [] kind = "StartPattern" -> {"create_tracks", "attach_global_tempo",
                                   "start_pattern", "sort_events"}
      [] kind = "StopPattern" -> {"stop_pattern", "sort_events"}
      [] OTHER -> {"sort_events"}

\* The handler sort_events; h holds the pattern p, the tracks ts, the
\* exception raised, "" for none, and whether a handler returned True.
SortEvents(h, ev, torder) ==
    IF ~ev.hasTrack THEN [h EXCEPT !.exc = "AttributeError"]
    ELSE LET target == IF ev.track > -1 THEN ev.track ELSE h.p.track_index
         IN  IF target >= Len(h.ts) THEN [h EXCEPT !.exc = "IndexError"]
             ELSE LET r == TrackSubmit(h.ts[target + 1], ev, NoneVal, torder)
                  IN  [h EXCEPT !.ts[target + 1] = r.t, !.exc = r.exc]

\* The handler stop_track; it reads a line from the standard input first,
\* which fails when the input is at its end.
StopTrack(h, eof) ==
    IF eof THEN [h EXCEPT !.exc = "EOFError"]
    ELSE IF h.p.track_index + 1 < Len(h.ts)
         THEN [h EXCEPT !.p.track_index = @ + 1]
         ELSE h

\* Pattern.add_track: the handlers of in_hands[TRACK] (set_division) are
\* run on one new Track and another new Track is appended.
AddTrack(ts) == Append(ts, NewTrack)

\* The handler create_tracks: add_track() event.num_tracks times.
RECURSIVE CreateTracks(_, _)
CreateTracks(h, n) ==
    IF n = 0 THEN h ELSE CreateTracks([h EXCEPT !.ts = AddTrack(@)], n - 1)

\* The handler attach_global_tempo, which reads a line from the standard
\* input first.
AttachGlobalTempo(h, ev, eof) ==
    IF eof THEN [h EXCEPT !.exc = "EOFError"]
    ELSE IF ev.data[2] = 1
         THEN [h EXCEPT !.p.tempo_out = Append(@, "global_tempo")]
         ELSE h

\* Pattern.divisions = value
SetDivisions(h, value) ==
    [h EXCEPT !.p.divisions = value,
              !.ts = [k \in 1..Len(h.ts) |-> [h.ts[k] EXCEPT !.divisions = value]]]

\* The handler start_pattern: it sets divisions and format, reads a line
\* from the standard input and returns True.
StartPatternHand(h, ev, eof) ==
    LET set == [SetDivisions(h, ev.data[4]) EXCEPT !.p.format = ev.data[2]]
    IN  IF eof THEN [set EXCEPT !.exc = "EOFError"]
        ELSE [set EXCEPT !.done = TRUE]

\* The handler stop_pattern returns True.
StopPatternHand(h) == [h EXCEPT !.done = TRUE]

\* One handler of the pattern's in_hands called.
PatternIn(name, h, ev, torder, eof) ==
    CASE name = "sort_events" -> SortEvents(h, ev, torder)
      [] name = "stop_track" -> StopTrack(h, eof)
      [] name = "create_tracks" -> CreateTracks(h, ev.data[3])
      [] name = "attach_global_tempo" -> AttachGlobalTempo(h, ev, eof)
      [] name = "start_pattern" -> StartPatternHand(h, ev, eof)
      [] name = "stop_pattern" -> StopPatternHand(h)

\* _handle_event with the pattern's in_hands, the handlers taken in order
\* until one raises or returns True.
RECURSIVE PatternHandleIn(_, _, _, _, _)
PatternHandleIn(h, ev, order, torder, eof) ==
    IF order = <<>> \/ h.exc # "" \/ h.done THEN h
    ELSE PatternHandleIn(PatternIn(Head(order), h, ev, torder, eof),
                         ev, Tail(order), torder, eof)

\* Pattern.submit_event(event)
PatternSubmit(p, ts, ev, order, torder, eof) ==
    PatternHandleIn([p |-> p, ts |-> ts, exc |-> "", done |-> FALSE], ev,
                    SelectSeq(order, LAMBDA n : n \in PatternInHands(ev.kind)),
                    torder, eof)

MaxRouted == 2

\* The values of event.track: -1 for no track given, and track numbers, the
\* last of them beyond the tracks of a pattern of one track.
TrackNumbers == {-1, 0, 1}

\* The events submitted: channel events as constructed (without the
\* attribute track) or as the file reader leaves them (track set), and
\* meta events (track set).
RouteEvents(id) ==
    { NewEvent(id, "NoteOn", 10) }
    \cup
    { [NewEvent(id, "NoteOn", 10) EXCEPT !.hasTrack = TRUE, !.track = n] :
        n \in TrackNumbers }
    \cup
    { [NewEvent(id, "EndOfTrack", 10) EXCEPT !.track = n] : n \in TrackNumbers }

InitRoute ==
    /\ NoDecoder
    /\ NoIO
    /\ tracks \in {<<NewTrack>>, <<NewTrack, NewTrack>>}
    /\ pat = NewPattern(48, 0)
    /\ maps = <<>>
    /\ horder \in [pattern : Orders(PatternInHands("EndOfTrack")),
                   track : Orders(TrackInHands("NoteOn"))]
    /\ hist = <<>> /\ calls = <<>> /\ arg = <<>>
    /\ ret = NoneRet /\ op = "init"

SubmitToPattern ==
    /\ FreshId <= MaxRouted
    /\ \E ev \in RouteEvents(FreshId), eof \in BOOLEAN :
         LET h == PatternSubmit(pat, tracks, ev, horder.pattern, horder.track, eof)
         IN  /\ pat' = h.p
             /\ tracks' = h.ts
             /\ ret' = IF h.exc = "" THEN NoneRet ELSE Raise(h.exc)
             /\ arg' = ev
    /\ op' = "submit_event"
    /\ UNCHANGED <<cls, decoderVars, fed, wasReset, scenarioVars, hist, calls, horder, maps,
                   ioVars>>

NextRoute == SubmitToPattern

SpecRoute == InitRoute /\ [][NextRoute]_vars

-----------------------------------------------------------------------------
(* Pattern: the builtin events StartPattern, StartTrack and StopPattern    *)
(* submitted to a pattern.                                                 *)

\* A builtin event with the arguments it was constructed with.
Builtin(kind, args) == [NewEvent(1, kind, 0) EXCEPT !.data = args]

\* How many times global_tempo is attached at most.
MaxAttached == 2

HeaderFormats == {0, 1, 2}
HeaderTracks == {0, 1, 2}

HeaderEvents ==
    { Builtin("StartPattern", <<6, f, n, d>>) :
        f \in HeaderFormats, n \in HeaderTracks, d \in Divisions }
    \cup { Builtin("StartTrack", <<"MTrk", 4>>), Builtin("StopPattern", <<>>) }

\* The functions a pattern's handler sets are made of when builtin events
\* are submitted.
HeaderHands ==
    {"create_tracks", "attach_global_tempo", "start_pattern", "stop_pattern",
     "sort_events"}

\* Pattern(): no tracks.  The handlers of the tracks are not reached by
\* builtin events, whatever their order.
InitHeader ==
    /\ NoDecoder
    /\ NoIO
    /\ tracks = <<>>
    /\ pat = NewPattern(48, 0)
    /\ maps = <<>>
    /\ horder \in [pattern : Orders(HeaderHands), track : {TrackInRegistered}]
    /\ hist = <<>> /\ calls = <<>> /\ arg = <<>>
    /\ ret = NoneRet /\ op = "init"

SubmitHeader ==
    /\ \E ev \in HeaderEvents, eof \in BOOLEAN :
         /\ ev.kind = "StartPattern"
              => (Len(tracks) = 0 /\ Len(pat.tempo_out) < MaxAttached)
         /\ LET h == PatternSubmit(pat, tracks, ev, horder.pattern, horder.track, eof)
            IN  /\ pat' = h.p
                /\ tracks' = h.ts
                /\ ret' = IF h.exc = "" THEN NoneRet ELSE Raise(h.exc)
                /\ arg' = ev
    /\ op' = "submit_event"
    /\ UNCHANGED <<cls, decoderVars, fed, wasReset, scenarioVars, hist, calls, horder, maps,
                   ioVars>>

NextHeader == SubmitHeader

SpecHeader == InitHeader /\ [][NextHeader]_vars

-----------------------------------------------------------------------------
(* Pattern: the divisions of a pattern and of its tracks, under            *)
(* Pattern(divisions), pattern.add_track() and pattern.divisions = value.  *)

\* How many calls and assignments are made at most.
MaxSteps == 4

\* The values divisions is constructed with or set to.
DivisionValues == {24, 48, 96}

\* pattern = Pattern(divisions)
InitDivisions ==
    /\ NoDecoder
    /\ NoIO
    /\ tracks = <<>>
    /\ \E d \in DivisionValues : pat = NewPattern(d, 0) /\ arg = d
    /\ horder = <<>> /\ maps = <<>>
    /\ hist = <<>> /\ calls = <<>>
    /\ ret = NoneRet /\ op = "init"

DivisionsFrame == UNCHANGED <<cls, decoderVars, fed, wasReset, scenarioVars, calls,
                              horder, maps, ioVars>>

\* pattern.add_track()
PatternAddTrack ==
    /\ Len(hist) < MaxSteps
    /\ tracks' = AddTrack(tracks)
    /\ hist' = Append(hist, <<"add_track">>)
    /\ ret' = NoneRet
    /\ arg' = <<>>
    /\ op' = "add_track"
    /\ UNCHANGED pat
    /\ DivisionsFrame

\* pattern.divisions = value
PatternSetDivisions ==
    /\ Len(hist) < MaxSteps
    /\ \E value \in DivisionValues :
         /\ \E h \in {SetDivisions([p |-> pat, ts |-> tracks], value)} :
              pat' = h.p /\ tracks' = h.ts
         /\ arg' = value
         /\ hist' = Append(hist, <<"divisions", value>>)
    /\ ret' = NoneRet
    /\ op' = "divisions"
    /\ DivisionsFrame

NextDivisions == PatternAddTrack \/ PatternSetDivisions

SpecDivisions == InitDivisions /\ [][NextDivisions]_vars

-----------------------------------------------------------------------------
(* Handler maps of containers.  A map is a dict from a key to a list of    *)
(* handlers; a list is an object, which several maps may hold.  maps holds *)
(* the lists of the default maps of handlers/maps.py, and a container      *)
(* holds the lists its own defaultdict has made.                           *)

\* How many calls are made on the handler maps at most.
MaxHandCalls == 3

DEFAULT_TRACK_IN ==
    [TRACK_NAME |-> <<"track_name">>, INSTRUMENT |-> <<"instrument_name">>,
     GLOBAL |-> TrackInRegistered]

DEFAULT_TRACK_OUT == [TEMPO_SET |-> <<"set_tempo">>]

\* The keys handlers are registered or removed under.
HandKeys == {"GLOBAL", "NoteOn", "TEMPO_SET"}

HandDicts == {"in_hands", "out_hands"}

\* The handlers registered (time_profile, as test.py does) or removed.
Handlers == {"time_profile", "append_event", "set_tempo"}

\* defaultdict(list) after update(default): the keys of default refer to
\* the list objects of default itself; any other key gets a list of the
\* defaultdict's own, empty when first looked up.
NewHands(default) == [k \in HandKeys \ DOMAIN default |-> <<>>]

\* BaseContainer.__init__ as Track() calls it
NewContainer ==
    [in_hands |-> NewHands(DEFAULT_TRACK_IN), out_hands |-> NewHands(DEFAULT_TRACK_OUT)]

\* container.in_hands[key] or container.out_hands[key], m being the lists
\* of the default maps
Hands(m, container, dict, key) ==
    IF key \in DOMAIN m[dict] THEN m[dict][key] ELSE container[dict][key]

\* list.remove(x) removes the first x of the list.
RECURSIVE RemoveFirst(_, _)
RemoveFirst(seq, x) ==
    IF seq = <<>> THEN <<>>
    ELSE IF Head(seq) = x THEN Tail(seq)
    ELSE <<Head(seq)>> \o RemoveFirst(Tail(seq), x)

\* The list under key of a container's map replaced by new: the list
\* object changed is the default map's when the key is one of its keys.
HandsAssign(i, dict, key, new) ==
    IF key \in DOMAIN maps[dict]
    THEN maps' = [maps EXCEPT ![dict][key] = new] /\ UNCHANGED tracks
    ELSE tracks' = [tracks EXCEPT ![i][dict][key] = new] /\ UNCHANGED maps

\* The modules are loaded and one Track() exists.
InitHands ==
    /\ NoDecoder
    /\ NoIO
    /\ maps = [in_hands |-> DEFAULT_TRACK_IN, out_hands |-> DEFAULT_TRACK_OUT]
    /\ tracks = <<NewContainer>>
    /\ pat = <<>> /\ hist = <<>> /\ calls = <<>> /\ arg = <<>> /\ horder = <<>>
    /\ ret = NoneRet /\ op = "init"

HandsFrame == UNCHANGED <<cls, decoderVars, fed, wasReset, scenarioVars, pat, calls,
                          horder, ioVars>>

\* Track()
HandsNewTrack ==
    /\ Len(hist) < MaxHandCalls
    /\ tracks' = Append(tracks, NewContainer)
    /\ arg' = [container |-> Len(tracks) + 1]
    /\ hist' = Append(hist, "Track")
    /\ ret' = NoneRet
    /\ op' = "Track"
    /\ UNCHANGED maps
    /\ HandsFrame

\* container.in_hands[key].append(handler), or the same on out_hands
HandsRegister ==
    /\ Len(hist) < MaxHandCalls
    /\ \E i \in 1..Len(tracks), dict \in HandDicts, key \in HandKeys :
         /\ HandsAssign(i, dict, key,
                        Append(Hands(maps, tracks[i], dict, key), "time_profile"))
         /\ arg' = [container |-> i, dict |-> dict, key |-> key]
    /\ hist' = Append(hist, "register")
    /\ ret' = NoneRet
    /\ op' = "register"
    /\ HandsFrame

\* container.in_hands[key].remove(handler), or the same on out_hands
HandsRemove ==
    /\ Len(hist) < MaxHandCalls
    /\ \E i \in 1..Len(tracks), dict \in HandDicts, key \in HandKeys,
          handler \in Handlers :
         /\ \E list \in {Hands(maps, tracks[i], dict, key)} :
              IF \E n \in 1..Len(list) : list[n] = handler
              THEN /\ HandsAssign(i, dict, key, RemoveFirst(list, handler))
                   /\ ret' = NoneRet
              ELSE /\ UNCHANGED <<tracks, maps>>
                   /\ ret' = Raise("ValueError")
         /\ arg' = [container |-> i, dict |-> dict, key |-> key]
    /\ hist' = Append(hist, "remove")
    /\ op' = "remove"
    /\ HandsFrame

NextHands == HandsNewTrack \/ HandsRegister \/ HandsRemove

SpecHands == InitHands /\ [][NextHands]_vars

-----------------------------------------------------------------------------
(* MIDIFile: ymidi/io/file.py.  io is the record of the MIDIFile object's  *)
(* fields, collection being the queue of events read and var_final and     *)
(* var_index the fields of its decoder; proto is the protocol object: the  *)
(* bytes data of the file it reads with the position pos in them, the      *)
(* bytes sink it has been given to write, and the log calls of the calls   *)
(* made on it, each with the number of bytes asked for or given.           *)

Least(a, b) == IF a <= b THEN a ELSE b

\* The element of a set of one element: { e : x \in {v} } is e with x
\* standing for the value of v, computed once.
Only(S) == CHOOSE x \in S : TRUE

\* int.from_bytes(bts, 'big')
RECURSIVE IntFromBytes(_)
IntFromBytes(bts) ==
    IF bts = <<>> THEN 0
    ELSE IntFromBytes(SubSeq(bts, 1, Len(bts) - 1)) * 256 + bts[Len(bts)]

\* b'MThd' and b'MTrk'
MThd == <<77, 84, 104, 100>>
MTrk == <<77, 84, 114, 107>>

\* MIDIFile.__init__(path, buffer)
NewMIDIFile(buffer) ==
    [buffer |-> buffer, collection |-> <<>>, num_tracks |-> 0, num_processed |-> 0,
     next_event_track |-> TRUE, finished_processing |-> FALSE,
     file_header |-> FALSE, writing_track |-> FALSE,
     var_final |-> 0, var_index |-> 0]

\* FileProtocol.__init__(path) on a file holding the bytes data
NewProtocol(bts) == [data |-> bts, pos |-> 0, sink |-> <<>>, calls |-> <<>>]

\* await proto.read(n): file.read(n) gives the bytes left when fewer than
\* n are left.
ProtoRead(p, n) ==
    LET end == Least(p.pos + n, Len(p.data))
    IN  [p   |-> [p EXCEPT !.pos = end, !.calls = Append(@, <<"read", n>>)],
         bts |-> SubSeq(p.data, p.pos + 1, end)]

\* proto.sync_read(n)
ProtoSyncRead(p, n) ==
    LET end == Least(p.pos + n, Len(p.data))
    IN  [p   |-> [p EXCEPT !.pos = end, !.calls = Append(@, <<"sync_read", n>>)],
         bts |-> SubSeq(p.data, p.pos + 1, end)]

\* await proto.write(bts)
ProtoWrite(p, bts) ==
    [p EXCEPT !.sink = @ \o bts, !.calls = Append(@, <<"write", Len(bts)>>)]

\* proto.start() and proto.stop()
ProtoStart(p) == [p EXCEPT !.calls = Append(@, <<"start", 0>>)]
ProtoStop(p) == [p EXCEPT !.calls = Append(@, <<"stop", 0>>)]

\* MIDIFile.read_file_header
ReadFileHeader(f, p) ==
    Only({ IF id.bts # MThd
           THEN [io |-> f, proto |-> id.p, exc |-> "ValueError", ev |-> <<>>]
           ELSE Only({ [io |-> [f EXCEPT !.num_tracks = IntFromBytes(num_tracks.bts)],
                        proto |-> division.p, exc |-> "",
                        ev |-> Builtin("StartPattern",
                                       <<IntFromBytes(length.bts),
                                         IntFromBytes(format.bts),
                                         IntFromBytes(num_tracks.bts),
                                         IntFromBytes(division.bts)>>)] :
                       length \in {ProtoRead(id.p, 4)},
                       format \in {ProtoRead(ProtoRead(id.p, 4).p, 2)},
                       num_tracks \in {ProtoRead(ProtoRead(ProtoRead(id.p, 4).p, 2).p, 2)},
                       division \in {ProtoRead(ProtoRead(ProtoRead(ProtoRead(id.p, 4).p, 2).p,
                                                        2).p, 2)} }) :
           id \in {ProtoRead(p, 4)} })

\* MIDIFile.start: the header is read and queued, then BaseIO.start starts
\* the protocol object.
MIDIFileStart(f, p) ==
    Only({ IF h.exc # "" THEN h
           ELSE [h EXCEPT !.io.collection = Append(@, h.ev),
                          !.proto = ProtoStart(@)] :
           h \in {ReadFileHeader(f, p)} })

\* BaseIO.stop
MIDIFileStop(f, p) == [io |-> f, proto |-> ProtoStop(p), exc |-> "", ev |-> <<>>]

\* MIDIFile.read_track_header: struct.unpack('>4sL', ...) of eight bytes
ReadTrackHeader(f, p) ==
    Only({ IF Len(r.bts) # 8
           THEN [io |-> f, proto |-> r.p, exc |-> "struct.error", ev |-> <<>>]
           ELSE [io |-> f, proto |-> r.p, exc |-> "",
                 ev |-> Builtin("StartTrack",
                                <<SubSeq(r.bts, 1, 4),
                                  IntFromBytes(SubSeq(r.bts, 5, 8))>>)] :
           r \in {ProtoRead(p, 8)} })

\* decoder.read_varlen(self.proto): the for loop takes its bytes from
\* BaseProtocol.__next__, which is sync_read(1)[0] and raises IndexError
\* when the file has no byte left.
RECURSIVE ReadVarlenProto(_, _)
ReadVarlenProto(f, p) ==
    Only({ IF r.bts = <<>>
           THEN [io |-> f, proto |-> r.p, exc |-> "IndexError", delta |-> 0]
           ELSE Only({ IF r.bts[1] < 128
                       THEN [io |-> [f EXCEPT !.var_final = 0, !.var_index = 0],
                             proto |-> r.p, exc |-> "", delta |-> vf]
                       ELSE ReadVarlenProto([f EXCEPT !.var_final = vf,
                                                      !.var_index = @ + 1], r.p) :
                       vf \in {VarShift(f.var_final, r.bts[1])} }) :
           r \in {ProtoSyncRead(p, 1)} })

\* decoder.seq_decode(bts) called with the bytes object that proto.read(1)
\* returns: a bytes object equals none of META, SYSTEM_EXCLUSIVE and EOX,
\* meta_decode is False, and is_status compares 128 <= bts.
SeqDecodeBytes(bts) == Raise("TypeError")

\* MIDIFile.read_event: the loop that feeds seq_decode until it returns an
\* event.
RECURSIVE DecodeFromProto(_)
DecodeFromProto(p) ==
    Only({ Only({ IF res.tag = "None" THEN DecodeFromProto(r.p)
                  ELSE [proto |-> r.p, res |-> res] :
                  res \in {SeqDecodeBytes(r.bts)} }) :
           r \in {ProtoRead(p, 1)} })

\* MIDIFile.read_event
ReadEvent(f, p) ==
    Only({ IF v.exc # "" THEN [io |-> v.io, proto |-> v.proto, exc |-> v.exc, ev |-> <<>>]
           ELSE Only({ IF e.res.tag # "event"
                       THEN [io |-> v.io, proto |-> e.proto, exc |-> e.res.tag,
                             ev |-> <<>>]
                       ELSE [io |-> v.io, proto |-> e.proto, exc |-> "",
                             ev |-> [NewEvent(1, e.res.kind, v.delta)
                                        EXCEPT !.data = e.res.data, !.hasTrack = TRUE,
                                               !.track = v.io.num_processed]] :
                       e \in {DecodeFromProto(v.proto)} }) :
           v \in {ReadVarlenProto(f, p)} })

\* MIDIFile.fill_buffer
RECURSIVE FillBuffer(_, _)
FillBuffer(f, p) ==
    IF ~ ( (f.buffer = 0 \/ f.buffer > Len(f.collection)) /\ ~f.finished_processing )
    THEN [io |-> f, proto |-> p, exc |-> "", ev |-> <<>>]
    ELSE IF f.next_event_track
    THEN Only({ IF h.exc # "" THEN h
                ELSE FillBuffer([h.io EXCEPT !.collection = Append(@, h.ev),
                                             !.next_event_track = FALSE], h.proto) :
                h \in {ReadTrackHeader(f, p)} })
    ELSE Only({ IF r.exc # "" THEN r
                ELSE IF r.ev.kind # "EndOfTrack"
                THEN FillBuffer([r.io EXCEPT !.collection = Append(@, r.ev)], r.proto)
                ELSE IF r.io.num_tracks # r.io.num_processed + 1
                THEN FillBuffer([r.io EXCEPT !.collection = Append(@, r.ev),
                                             !.next_event_track = TRUE,
                                             !.num_processed = @ + 1], r.proto)
                ELSE FillBuffer([r.io EXCEPT !.collection =
                                                 Append(Append(@, r.ev),
                                                        Builtin("StopPattern", <<>>)),
                                             !.next_event_track = TRUE,
                                             !.num_processed = @ + 1,
                                             !.finished_processing = TRUE], r.proto) :
                r \in {ReadEvent(f, p)} })

\* MIDIFile.get: ev is the event returned; the call does not return while
\* the queue is empty (exc is "pending").
MIDIFileGet(f, p) ==
    Only({ IF b.exc # "" THEN b
           ELSE IF b.io.collection = <<>> THEN [b EXCEPT !.exc = "pending"]
           ELSE [b EXCEPT !.io.collection = Tail(@), !.ev = b.io.collection[1]] :
           b \in {FillBuffer(f, p)} })

-----------------------------------------------------------------------------
(* MIDIFile reading a standard MIDI file.  arg is the content of the file: *)
(* its format, its divisions and for each track the events in it; hist is  *)
(* the list of the events get has returned.                                *)

MaxBuffer == 2
MaxCalls == 14

U16(n) == <<(n \div 256) % 256, n % 256>>
U32(n) == <<(n \div 16777216) % 256, (n \div 65536) % 256>> \o U16(n)

\* The bytes of one event in a track chunk: the delta time as a varlen,
\* then the message.
TrackEventBytes(e) ==
    <<e[2]>> \o (IF e[1] = "EndOfTrack" THEN <<META, 47, 0>> ELSE <<144, 60, 64>>)

RECURSIVE ChunkBytes(_)
ChunkBytes(evs) ==
    IF evs = <<>> THEN <<>> ELSE TrackEventBytes(evs[1]) \o ChunkBytes(Tail(evs))

RECURSIVE TrackChunks(_)
TrackChunks(trks) ==
    IF trks = <<>> THEN <<>>
    ELSE MTrk \o U32(Len(ChunkBytes(trks[1]))) \o ChunkBytes(trks[1])
              \o TrackChunks(Tail(trks))

\* The bytes of a well-formed standard MIDI file.
FileBytes(file) ==
    MThd \o U32(6) \o U16(file.format) \o U16(Len(file.tracks))
         \o U16(file.divisions) \o TrackChunks(file.tracks)

ReaderFiles ==
    [format : {0, 1}, divisions : {96},
     tracks : { <<>>, << <<EndTrack(0)>> >>, << <<Note(0), EndTrack(5)>> >>,
                << <<Note(5), EndTrack(0)>>, <<EndTrack(0)>> >> }]

InitReader ==
    /\ NoDecoder
    /\ now = 0
    /\ arg \in ReaderFiles
    /\ \E buffer \in 0..MaxBuffer : io = NewMIDIFile(buffer)
    /\ proto = NewProtocol(FileBytes(arg))
    /\ tracks = <<>> /\ pat = <<>> /\ hist = <<>> /\ calls = <<>> /\ horder = <<>> /\ maps = <<>>
    /\ ret = NoneRet /\ op = "init"

ReaderFrame == UNCHANGED <<cls, decoderVars, fed, wasReset, scenarioVars, tracks, pat,
                           calls, arg, horder, maps, now>>

\* The outcome r of a call: the fields, and what the caller gets.
ReaderResult(r) ==
    /\ io' = r.io
    /\ proto' = r.proto
    /\ ret' = IF r.exc # "" THEN Raise(r.exc)
              ELSE IF r.ev = <<>> THEN NoneRet ELSE EventRet(r.ev)

\* What get has returned: the event with the delta and track set on it.
Delivered(ev) ==
    [kind |-> ev.kind, delta |-> ev.delta, track |-> ev.track, data |-> ev.data]

\* MIDIFile.has_events()
HasEvents(f) == ~(f.finished_processing /\ f.collection = <<>>)

\* await f.start()
ReaderStart ==
    /\ op = "init"
    /\ \E r \in {MIDIFileStart(io, proto)} : ReaderResult([r EXCEPT !.ev = <<>>])
    /\ op' = "start"
    /\ UNCHANGED hist
    /\ ReaderFrame

\* await f.get(), once started
ReaderGet ==
    /\ op \in {"start", "get"}
    /\ Len(proto.calls) < MaxCalls
    /\ \E r \in {MIDIFileGet(io, proto)} :
           /\ ReaderResult(r)
           /\ hist' = IF r.exc = "" THEN Append(hist, Delivered(r.ev)) ELSE hist
    /\ op' = "get"
    /\ ReaderFrame

\* await f.stop(), the last call
ReaderStop ==
    /\ op \in {"start", "get"}
    /\ \E r \in {MIDIFileStop(io, proto)} : ReaderResult(r)
    /\ op' = "stop"
    /\ UNCHANGED hist
    /\ ReaderFrame

NextReader == ReaderStart \/ ReaderGet \/ ReaderStop

SpecReader == InitReader /\ [][NextReader]_vars

-----------------------------------------------------------------------------
(* MIDIFile writing.  An event given to put is the record of the instance *)
(* inst and of its attribute delta; the builtin events keep the arguments  *)
(* of their constructor in args.                                           *)

MaxPuts == 3

\* The list write_varlen returns.
ListValue(seq) == [Blank EXCEPT !.tag = "list", !.data = seq]

\* data += other, data a bytes object: a bytes object only takes bytes.
BytesIAdd(b, other) ==
    IF other.tag = "bytes" THEN Bytes(b.data \o other.data) ELSE Raise("TypeError")

\* struct.pack(">3h", a, b, c): three signed 16-bit integers
Pack3h(a, b, c) ==
    IF \A x \in {a, b, c} : -32768 <= x /\ x <= 32767
    THEN Bytes(U16(a + 65536) \o U16(b + 65536) \o U16(c + 65536))
    ELSE Raise("struct.error")

\* MIDIFile.write_file_header: the call self.proto.write(data) at its end
\* is not awaited, so nothing reaches the protocol object.
WriteFileHeader(p, length, format, num_tracks, byte_div) ==
    LET text == BytesIAdd(Bytes(MThd), ListValue(WriteVarlen(length)))
        whole == IF text.tag # "bytes" THEN text
                 ELSE BytesIAdd(text, Pack3h(format, num_tracks, byte_div))
    IN  [proto |-> p, exc |-> IF whole.tag = "bytes" THEN "" ELSE whole.tag]

\* MIDIFile.write_track_header: struct.pack('>4sL', track_type, length)
\* is written and awaited.
WriteTrackHeader(p, track_type, length) ==
    [proto |-> ProtoWrite(p, track_type \o U32(length)), exc |-> ""]

\* MIDIFile.write_event when it is awaited: the event is encoded, and the
\* call self.proto.write(...) is not awaited.
WriteEvent(p, ev) ==
    LET encoded == EncodeOf("Meta", ev.inst)
    IN  [proto |-> p, exc |-> IF encoded.tag = "bytes" THEN "" ELSE encoded.tag]

\* MIDIFile.put.  Its last statement, self.write_event(event), builds the
\* coroutine and drops it: no statement of write_event is run.
MIDIFilePut(f, p, ev) ==
    IF ~f.file_header /\ ev.inst.kind = "StartPattern"
    THEN Only({ [io |-> [f EXCEPT !.file_header = (w.exc = "")],
                 proto |-> w.proto, exc |-> w.exc, ev |-> <<>>] :
                w \in {WriteFileHeader(p, ev.inst.args[1], ev.inst.args[2],
                                       ev.inst.args[3], ev.inst.args[4])} })
    ELSE IF ~f.writing_track /\ ev.inst.kind = "StartTrack"
    THEN [io |-> [f EXCEPT !.writing_track = TRUE],
          proto |-> WriteTrackHeader(p, ev.inst.args[1], ev.inst.args[2]).proto,
          exc |-> "", ev |-> <<>>]
    ELSE [io |-> [f EXCEPT !.writing_track =
                               IF @ /\ ev.inst.kind = "EndOfTrack" THEN FALSE ELSE @],
          proto |-> p, exc |-> "", ev |-> <<>>]

\* An instance of StartPattern, StartTrack or StopPattern.
BuiltinInstance(kind, args) ==
    [Blank EXCEPT !.tag = "event", !.kind = kind, !.args = args, !.data = args,
                  !.statusmsg = CASE kind = "StartPattern" -> -1
                                  [] kind = "StartTrack" -> -2
                                  [] OTHER -> -3]

WriterEvents ==
    { [inst |-> BuiltinInstance("StartPattern", <<6, f, n, 96>>), delta |-> 0] :
          f \in {0, 1}, n \in {1, 2} }
    \cup { [inst |-> BuiltinInstance("StartTrack", <<MTrk, 4>>), delta |-> 0],
           [inst |-> BuiltinInstance("StopPattern", <<>>), delta |-> 0],
           [inst |-> Construct("EndOfTrack", <<>>), delta |-> 0] }
    \cup { [inst |-> Construct("NoteOn", <<60, 64>>), delta |-> d] : d \in {0, 200} }

\* f = MIDIFile() with a protocol object that takes the bytes written.
InitWriter ==
    /\ NoDecoder
    /\ now = 0
    /\ io = NewMIDIFile(0)
    /\ proto = NewProtocol(<<>>)
    /\ tracks = <<>> /\ pat = <<>> /\ hist = <<>> /\ calls = <<>> /\ horder = <<>> /\ maps = <<>>
    /\ arg = <<>>
    /\ ret = NoneRet /\ op = "init"

WriterFrame == UNCHANGED <<cls, decoderVars, fed, wasReset, scenarioVars, tracks, pat,
                           calls, horder, maps, now>>

\* await f.put(ev)
WriterPut ==
    /\ Len(hist) < MaxPuts
    /\ \E ev \in WriterEvents :
         /\ \E r \in {MIDIFilePut(io, proto, ev)} : ReaderResult(r)
         /\ arg' = ev
         /\ hist' = Append(hist, ev)
    /\ op' = "put"
    /\ WriterFrame

\* await f.write_event(ev)
WriterWriteEvent ==
    /\ Len(hist) < MaxPuts
    /\ \E ev \in WriterEvents :
         /\ ev.inst.statusmsg >= 0
         /\ \E r \in {WriteEvent(proto, ev)} :
              ReaderResult([io |-> io, proto |-> r.proto, exc |-> r.exc, ev |-> <<>>])
         /\ arg' = ev
         /\ hist' = Append(hist, ev)
    /\ op' = "write_event"
    /\ WriterFrame

\* The header is read back from the bytes written: read_file_header of a
\* MIDIFile whose protocol object reads those bytes.
WriterReadBack ==
    /\ op = "put"
    /\ \E r \in {ReadFileHeader(NewMIDIFile(0), NewProtocol(proto.sink))} :
         ret' = IF r.exc # "" THEN Raise(r.exc) ELSE EventRet(r.ev)
    /\ op' = "read_file_header"
    /\ UNCHANGED <<io, proto, arg, hist>>
    /\ WriterFrame

NextWriter == WriterPut \/ WriterWriteEvent \/ WriterReadBack

SpecWriter == InitWriter /\ [][NextWriter]_vars

-----------------------------------------------------------------------------
(* Properties of a Track's input side. *)

\* The ticks of the events of a list follow from their deltas.
TicksFollowDeltas(T) ==
    \A i \in 1..Len(T) :
        /\ T[i].tick = (IF i = 1 THEN 0 ELSE T[i - 1].tick) + T[i].delta
        /\ (i > 1 => T[i].tick >= T[i - 1].tick)

\* C11: tick invariant.  After any sequence of submit_event, append and
\* insert on a Track, the tick of every event is the tick of the event
\* before it plus its own delta (its delta for the first event).
C11_TickInvariant == TicksFollowDeltas(tracks[1].events)

\* C12: handler chain.  The handlers _handle_event invokes for an event are
\* those registered under its key and under GLOBAL, in registration order,
\* each at most once: the handlers invoked are a prefix of that list.
C12_HandlerChain ==
    op = "submit_event"
    => \E n \in 0..Len(TrackInRegistered) : calls = SubSeq(TrackInRegistered, 1, n)

\* C13: mid-track insertion.  submit_event(e, index = i) with i below the
\* length of the track and e not in the track returns normally, leaves e
\* at position i with the other events in their order around it, and
\* leaves every tick recomputed from the deltas.
C13_MidTrackInsert ==
    [][ ( op' = "submit_event" /\ arg'.index < Len(tracks[1].events) )
        => ( /\ ret'.tag = "None"
             /\ Len(tracks'[1].events) = Len(tracks[1].events) + 1
             /\ tracks'[1].events[arg'.index + 1].id = arg'.id
             /\ \A i \in 1..Len(tracks[1].events) :
                  tracks'[1].events[IF i <= arg'.index THEN i ELSE i + 1].id
                    = tracks[1].events[i].id
             /\ TicksFollowDeltas(tracks'[1].events) ) ]_vars

\* C35: failing input handler.  When submit_event on a Track raises, the
\* track's stored events are those it held before the call: the event
\* submitted is not among them.
C35_FailingHandler ==
    [][ ( op' = "submit_event" /\ IsError(ret') )
        => tracks'[1].events = tracks[1].events ]_vars

\* C39: rehandle terminates and preserves the contents.  Track.rehandle()
\* returns, and the track then holds the same events in the same order.
C39_Rehandle ==
    [][ op' = "rehandle"
        => /\ ret'.tag = "None"
           /\ Len(tracks'[1].events) = Len(tracks[1].events)
           /\ \A i \in 1..Len(tracks[1].events) :
                 tracks'[1].events[i].id = tracks[1].events[i].id ]_vars

-----------------------------------------------------------------------------
(* Properties of a Track's tempo. *)

\* C14: tempo consistency.  Whatever has been assigned to tempo and mpb and
\* whatever time signature has been set, the mpb read from the track is
\* 60_000_000 / tempo * (timesig_den / 4) for the tempo read from it.
C14_TempoConsistency ==
    TrackMpb(tracks[1]) * TrackTempo(tracks[1]) * 4 = 60000000 * tracks[1].den

\* C15: tempo change on emission.  When get or time_get reaches a SetTempo
\* event, it returns the event, the track's microseconds per beat become
\* the event's tempo value with the BPM derived from it, and the events
\* keep the ticks and times they had.
C15_TempoOnEmission ==
    [][ ( /\ op' \in {"get", "time_get"}
          /\ tracks[1].out_index < Len(tracks[1].events)
          /\ tracks[1].events[tracks[1].out_index + 1].kind = "SetTempo" )
        => LET ev == tracks[1].events[tracks[1].out_index + 1]
           IN  /\ ret' = EventRet(ev)
               /\ tracks'[1].mpb = TempoValue(ev)
               /\ tracks'[1].tempo = MpbToBpm(TempoValue(ev), tracks[1].den)
               /\ tracks'[1].events = tracks[1].events ]_vars

-----------------------------------------------------------------------------
(* Properties of Track.time_get against the clock. *)

\* last_time + delta * mpb / divisions for the event at out_index.
Deadline(t) == t.last_time + (Current(t).delta * t.mpb) \div t.divisions

\* C23: scheduler release condition.  time_get called on a track that has
\* an event at out_index returns that event, at a clock reading now with
\* deadline <= now + lookahead, and at once when that holds at the call.
C23_ReleaseCondition ==
    [][ ( op' = "time_get" /\ tracks[1].out_index < Len(tracks[1].events) )
        => /\ ret' = EventRet(Current(tracks[1]))
           /\ Deadline(tracks[1]) <= now' + tracks[1].lookahead
           /\ Deadline(tracks[1]) <= now + tracks[1].lookahead => now' = now ]_vars

\* C24: lateness bound.  With lookahead >= interval, a time_get call that
\* starts before the deadline of its event returns the event no later
\* than interval after the deadline.
C24_LatenessBound ==
    [][ ( /\ op' = "time_get" /\ tracks[1].out_index < Len(tracks[1].events)
          /\ tracks[1].lookahead >= tracks[1].interval
          /\ now < Deadline(tracks[1]) )
        => /\ ret'.tag = "event"
           /\ now' <= Deadline(tracks[1]) + tracks[1].interval ]_vars

-----------------------------------------------------------------------------
(* Properties of a Pattern's playback. *)

\* The log is that of a playback: it starts with start_playback.
InPlayback == Len(hist) >= 1 /\ hist[1].ret.tag = "start_playback"

\* The positions of the log that hold an event taken from a track.
TrackReturns == {i \in 1..Len(hist) : hist[i].trk # NoneVal}

\* C16: multi-track merge.  During a playback every get / time_get returns
\* an event; the events taken from the tracks come in non-decreasing tick
\* order, those of one track in the order of that track without repeats,
\* and when StopPattern is returned every event of every track has been
\* returned.
C16_Merge ==
    InPlayback =>
      /\ \A i \in 2..Len(hist) : hist[i].ret.tag = "event"
      /\ \A i, j \in TrackReturns : i < j => hist[i].ret.args[2] <= hist[j].ret.args[2]
      /\ \A k \in 1..Len(tracks) :
           LET mine == SelectSeq(hist, LAMBDA h : h.trk = k - 1)
           IN  /\ Len(mine) <= Len(tracks[k].events)
               /\ \A n \in 1..Len(mine) : mine[n].ret = EventRet(tracks[k].events[n])
               /\ (\E i \in 2..Len(hist) : hist[i].ret.kind = "StopPattern")
                    => Len(mine) = Len(tracks[k].events)

\* C17: tie-break.  A get / time_get that returns the event of a track
\* returns that of the lowest-indexed playing track among those whose next
\* event has the least tick.
C17_TieBreak ==
    [][ ( /\ op' \in {"get", "time_get"}
          /\ ret'.tag = "event"
          /\ hist'[Len(hist')].trk # NoneVal )
        => LET trk == hist'[Len(hist')].trk + 1
           IN  \A i \in 1..Len(pat.playing_tracks) :
                 LET other == pat.playing_tracks[i]
                 IN  \/ Current(tracks[other]).tick > Current(tracks[trk]).tick
                     \/ other >= trk ]_vars

\* C18: end of playback.  During a playback StopPattern is returned only
\* when every track has ended, and every call after the one that returned
\* StopPattern fails with StopPlayback.
C18_EndOfPlayback ==
    InPlayback =>
      \A i \in 2..Len(hist) :
        hist[i].ret.kind = "StopPattern"
        => \A j \in (i + 1)..Len(hist) : hist[j].ret.tag = "StopPlayback"

\* C19: start of playback.  The first get / time_get after start_playback
\* returns StartPattern(6, format, number of tracks, divisions), and no
\* later call of the playback returns a StartPattern.
C19_StartOfPlayback ==
    (InPlayback /\ Len(hist) >= 2) =>
      /\ hist[2].ret = StartPatternRet(pat, tracks)
      /\ hist[2].trk = NoneVal
      /\ \A i \in 3..Len(hist) : hist[i].ret.kind # "StartPattern"

\* A playback of two tracks in which StartPattern was followed by events of
\* the tracks.
C19_Witness ==
    /\ InPlayback /\ Len(hist) >= 4
    /\ hist[2].ret.kind = "StartPattern" /\ hist[2].ret.args = <<6, 1, 2, 96>>
    /\ hist[3].trk = 0 /\ hist[4].trk = 1

-----------------------------------------------------------------------------
(* Properties of a Pattern's input side. *)

\* How many events of the list have the id.
CountId(evs, id) == Cardinality({i \in 1..Len(evs) : evs[i].id = id})

\* C20: event routing.  An event submitted to a pattern, naming no track
\* or one of the pattern's tracks, is afterwards held once by the track
\* event.track (by the track at track_index when event.track is negative
\* or absent) and by no other; after an EndOfTrack track_index has
\* advanced by one if a further track exists; track_index always stays
\* within the tracks of the pattern.
C20_Routing ==
    [][ ( /\ op' = "submit_event"
          /\ (arg'.hasTrack => arg'.track < Len(tracks)) )
        => LET ev == arg'
               target == IF ev.hasTrack /\ ev.track > -1 THEN ev.track
                         ELSE pat.track_index
           IN  /\ \A k \in 1..Len(tracks') :
                    CountId(tracks'[k].events, ev.id)
                      = (IF k - 1 = target THEN 1 ELSE 0)
               /\ pat'.track_index =
                    (IF ev.kind = "EndOfTrack" /\ pat.track_index + 1 < Len(tracks)
                     THEN pat.track_index + 1 ELSE pat.track_index)
               /\ 0 <= pat'.track_index /\ pat'.track_index < Len(tracks') ]_vars

\* C22: global tempo rule.  When a SetTempo leaves a pattern of format 1
\* that has global_tempo attached, every track's microseconds per beat
\* become the event's tempo value; in a pattern of format 0 or 2 no track
\* but the one the event belongs to changes its tempo.
C22_GlobalTempo ==
    [][ ( /\ op' \in {"get", "time_get"}
          /\ GetNewest(pat, tracks).trk # NoneVal
          /\ Current(tracks[GetNewest(pat, tracks).trk]).kind = "SetTempo" )
        => LET trk == GetNewest(pat, tracks).trk
               ev == Current(tracks[trk])
           IN  /\ (pat.format = 1 /\ pat.tempo_out # <<>>)
                    => \A k \in 1..Len(tracks) : tracks'[k].mpb = TempoValue(ev)
               /\ pat.format # 1
                    => \A k \in 1..Len(tracks) :
                         k # trk => /\ tracks'[k].mpb = tracks[k].mpb
                                    /\ tracks'[k].tempo = tracks[k].tempo ]_vars

-----------------------------------------------------------------------------
(* Properties of the builtin events submitted to a Pattern. *)

\* C21: pattern header ingestion.  StartPattern(length, f, n, d) submitted
\* to a pattern without tracks leaves it with n empty tracks, format f and
\* divisions d on the pattern and on each track; no track ever holds a
\* StartPattern, StartTrack or StopPattern.
C21_HeaderIngestion ==
    [][ op' = "submit_event"
        => /\ \A k \in 1..Len(tracks') : \A i \in 1..Len(tracks'[k].events) :
                tracks'[k].events[i].kind
                  \notin {"StartPattern", "StartTrack", "StopPattern"}
           /\ ( arg'.kind = "StartPattern" /\ Len(tracks) = 0 )
              => ( /\ Len(tracks') = arg'.data[3]
                   /\ pat'.format = arg'.data[2]
                   /\ pat'.divisions = arg'.data[4]
                   /\ \A k \in 1..Len(tracks') :
                        /\ tracks'[k].events = <<>>
                        /\ tracks'[k].divisions = arg'.data[4] ) ]_vars

-----------------------------------------------------------------------------
(* Properties of MIDIFile reading a file. *)

\* The events of track number t of a file, with delta and track set.
ExpectedTrack(evs, t) ==
    [i \in 1..Len(evs) |->
        [kind |-> evs[i][1], delta |-> evs[i][2], track |-> t,
         data |-> IF evs[i][1] = "NoteOn" THEN <<60, 64>> ELSE <<>>]]

RECURSIVE ExpectedTracks(_, _)
ExpectedTracks(trks, t) ==
    IF trks = <<>> THEN <<>>
    ELSE <<Delivered(Builtin("StartTrack", <<MTrk, Len(ChunkBytes(trks[1]))>>))>>
         \o ExpectedTrack(trks[1], t) \o ExpectedTracks(Tail(trks), t + 1)

\* What get is to return, call after call, for a file.
Expected(file) ==
    <<Delivered(Builtin("StartPattern",
                        <<6, file.format, Len(file.tracks), file.divisions>>))>>
    \o ExpectedTracks(file.tracks, 0)
    \o <<Delivered(Builtin("StopPattern", <<>>))>>

\* C26: reader ordering.  On a well-formed file every get returns the next
\* event of the sequence StartPattern, then for each track StartTrack and
\* its events with delta and track index set, then StopPattern.
C26_ReaderOrdering ==
    [][ ( op' = "get" /\ Len(hist) < Len(Expected(arg)) )
        => hist' = Append(hist, Expected(arg)[Len(hist) + 1]) ]_vars

\* C27: buffer bound.  With buffer = n > 0 the queue never holds more than
\* n events; with buffer = 0 a get has read the whole file when it delivers
\* its event, which the first get does.
C27_BufferBound ==
    /\ io.buffer > 0 => Len(io.collection) <= io.buffer
    /\ (io.buffer = 0 /\ op = "get" /\ Len(hist) <= 1)
         => /\ ret.tag = "event"
            /\ io.finished_processing
            /\ proto.pos = Len(proto.data)

\* C28: byte-source lifecycle.  start() is called once and before the
\* first read or write, stop() after the last: no read is issued to a
\* source that has not been started.
C28_SourceLifecycle ==
    /\ Cardinality({i \in 1..Len(proto.calls) : proto.calls[i][1] = "start"}) <= 1
    /\ \A i \in 1..Len(proto.calls) :
         /\ proto.calls[i][1] \in {"read", "sync_read", "write"}
              => \E j \in 1..(i - 1) : proto.calls[j][1] = "start"
         /\ proto.calls[i][1] = "stop" => i = Len(proto.calls)

-----------------------------------------------------------------------------
(* Properties of MIDIFile writing. *)

\* C29: writing track events.  put(e) for an event of a track, Meta events
\* included, adds varlen(e.delta) and then the encoded bytes of e to what
\* the sink has received, so successive puts arrive in call order.
C29_WriteTrackEvent ==
    [][ ( op' = "put" /\ arg'.inst.statusmsg >= 0 )
        => /\ ret'.tag = "None"
           /\ proto'.sink = proto.sink \o WriteVarlen(arg'.delta)
                                       \o EventBytes(arg'.inst).data ]_vars

\* The 14 bytes of the header chunk of StartPattern(length, format,
\* num_tracks, divisions).
HeaderChunk(a) == MThd \o U32(a[1]) \o U16(a[2]) \o U16(a[3]) \o U16(a[4])

\* C30: header round trip.  put(StartPattern(6, format, num_tracks,
\* divisions)) on a file without a header writes the 14 bytes "MThd",
\* u32(6), u16(format), u16(num_tracks), u16(divisions), and
\* read_file_header on the bytes written returns the same StartPattern.
C30_HeaderRoundTrip ==
    [][ /\ ( op' = "put" /\ arg'.inst.kind = "StartPattern" /\ ~io.file_header )
          => /\ ret'.tag = "None"
             /\ proto'.sink = proto.sink \o HeaderChunk(arg'.inst.args)
        /\ ( op' = "read_file_header" /\ arg.inst.kind = "StartPattern"
             /\ Len(hist) = 1 )
          => /\ ret'.kind = "StartPattern"
             /\ ret'.data = arg.inst.args ]_vars

-----------------------------------------------------------------------------
(* Properties of seq_decode on stray and reserved bytes. *)

\* C31: stray data byte.  A data byte given to a new decoder is discarded:
\* the call returns None, and a channel message given to seq_decode after
\* it is returned when its last data byte arrives, as on a new decoder.
C31_StrayDataByte ==
    [][ ( /\ op' = "seq_decode" /\ ~wasReset
          /\ Len(fed') = Len(fed) + 1
          /\ IsData(fed'[1]) )
        => /\ Len(fed') = 1 => ret'.tag = "None"
           /\ ( /\ Len(fed') > 2
                /\ IsStatus(fed'[2]) /\ Registered(cls, fed'[2])
                /\ HasChannel(Collection(cls, fed'[2]))
                /\ Len(fed') = 2 + Length(Collection(cls, fed'[2]))
                /\ \A i \in 3..Len(fed') : IsData(fed'[i]) )
              => /\ ret'.tag = "event"
                 /\ ret'.kind = Collection(cls, fed'[2])
                 /\ ret'.args = SubSeq(fed', 3, Len(fed'))
                 /\ data' = <<>> /\ event' = <<>> ]_vars

\* The bytes that start a meta or System Exclusive frame.
FrameBytes == {META, SYSTEM_EXCLUSIVE, EOX}

\* C32: the body of a meta frame is opaque.  Inside a frame opened by 0xFF
\* a byte 0xFF, 0xF0 or 0xF7 is part of the frame: in the place of the
\* type it becomes the type, and in the body it is added to the body, the
\* type and the length staying as they are.
C32_MetaBodyOpaque ==
    [][ ( /\ op' = "seq_decode" /\ ~wasReset
          /\ Len(fed') = Len(fed) + 1
          /\ fed'[Len(fed')] \in FrameBytes
          /\ Len(fed) >= 1 /\ fed[1] = META )
        => /\ Len(fed) = 1 => ( ret'.tag = "None" /\ meta_type' = fed'[2] )
           /\ ( /\ Len(fed) >= 3
                /\ fed[2] \in 1..127 /\ fed[3] \in 1..127
                /\ Len(fed) - 3 < fed[3] - 1
                /\ \A i \in 4..Len(fed) : IsData(fed[i]) )
              => /\ ret'.tag = "None"
                 /\ meta_type' = fed[2] /\ meta_length' = fed[3]
                 /\ meta_byts' = SubSeq(fed', 4, Len(fed')) ]_vars

-----------------------------------------------------------------------------
(* Properties of nested messages. *)

\* The trace midi_stream expects for its stream.
ExpectedTrace ==
    << <<"TimingClock", <<>> >>, <<"TimingClock", <<>> >>,
       <<"SystemExclusive", <<1, 2, 3, 4, 5>> >>, <<"NoteOn", <<60, 64>> >>,
       <<"TimingClock", <<>> >>, <<"NoteOn", <<55, 55>> >>,
       <<"NoteOff", <<30, 30>> >>, <<"NoteOn", <<60, 64>> >>,
       <<"NoteOn", <<78, 23>> >>, <<"TimingClock", <<>> >> >>

\* C33: nested messages are LIFO.  A message that interrupts another one
\* is returned first; the interrupted message is then the current one
\* again, its data intact and its status the running status, and is
\* completed by the next data byte.  The stream of midi_stream is decoded
\* to the end and gives the expected trace.
C33_NestedLIFO ==
    [][ op' = "seq_decode"
        => /\ ( msg \in NestedStreams /\ Len(fed') = 5 )
                => /\ hist' = << <<Collection(cls, msg[3]), <<30, 31>> >> >>
                   /\ data'[1] = <<msg[1], 60>>
                   /\ RunningStatus' = msg[1]
           /\ ( msg \in NestedStreams /\ Len(fed') = 6 )
                => hist' = << <<Collection(cls, msg[3]), <<30, 31>> >>,
                              <<Collection(cls, msg[1]), <<60, 64>> >> >>
           /\ ( msg = TestStream /\ IsError(ret') ) => FALSE
           /\ ( msg = TestStream /\ Len(fed') = Len(msg) ) => hist' = ExpectedTrace
      ]_vars

\* C34: bounded nesting.  Whatever bytes seq_decode is given, the decoder
\* never holds more than two frames in progress nor more than two
\* remembered statuses.
C34_BoundedNesting ==
    /\ Len(data) <= 2
    /\ Len(event) <= 2
    /\ Len(decode_status) <= 2

-----------------------------------------------------------------------------
(* Properties of a pattern's divisions. *)

\* C36: divisions stay in sync.  After any sequence of add_track calls and
\* assignments to pattern.divisions on a pattern constructed with any
\* divisions, every track of the pattern has the pattern's divisions.
C36_DivisionsInSync ==
    \A k \in 1..Len(tracks) : tracks[k].divisions = pat.divisions

-----------------------------------------------------------------------------
(* Properties of an interrupted Pattern.time_get. *)

-----------------------------------------------------------------------------
(* Properties of the reading loop of a MIDIFile. *)

\* C38: reader termination.  Whenever has_events() is true of a started
\* MIDIFile, the next get() returns an event, so that the loop
\* 'while has_events(): get()' delivers the events up to StopPattern and
\* ends.
C38_ReaderTermination ==
    [][ ( op' = "get" /\ HasEvents(io) ) => ret'.tag = "event" ]_vars

-----------------------------------------------------------------------------
(* Properties of the handler maps. *)

\* C40: handler maps are per container.  Registering or removing a
\* handler in one container's in_hands or out_hands, under any key, leaves
\* the handlers of every other container as they were, and a container
\* made later has the handlers of the default maps as maps.py gives them.
C40_PerContainerMaps ==
    [][ /\ op' \in {"register", "remove"}
          => \A j \in 1..Len(tracks), dict \in HandDicts, key \in HandKeys :
               j # arg'.container
                 => Hands(maps', tracks'[j], dict, key)
                      = Hands(maps, tracks[j], dict, key)
        /\ op' = "Track"
          => \A dict \in HandDicts, key \in HandKeys :
               Hands(maps', tracks'[arg'.container], dict, key)
                 = Hands([in_hands |-> DEFAULT_TRACK_IN,
                          out_hands |-> DEFAULT_TRACK_OUT],
                         NewContainer, dict, key) ]_vars

=============================================================================
